---------------------------- MODULE Spec2Model ----------------------------
(* A model of parts of CrystFEL, one specification for each:               *)
(*   - thread-pool.c, range mode: run_thread_range        (SpecRange)      *)
(*   - thread-pool.c, streaming mode, as partial_sim                       *)
(*     drives it: run_threads                             (SpecTasks)      *)
(*   - partial_sim.c: calculate_partials and the shared                    *)
(*     list of full intensities                           (SpecPartials)   *)
(*   - partialator.c: main                                (SpecPartialator)*)
(*   - indexamajig.c: main                                (SpecIndexamajig)*)
(*   - peaks.c: search_peaks and cull_peaks               (SpecPeaks,      *)
(*                                                         SpecCull)       *)
(*   - peaks.c: the hill climb of search_peaks, one                        *)
(*     statement at a time                                (SpecClimb)      *)
(*   - cell.c: UnitCell, its setters and getters          (SpecCell)       *)
(*   - cell.c: match_cell                                 (SpecMatchCell)  *)
(*   - partialator.c: refine_all on the streaming pool    (SpecRefine)     *)
(*   - pr_gradient_check.c: scan_partialities             (SpecPartiality) *)
(*   - zmq.c: get_peaks_onda and obj_read                 (SpecZmq)        *)
(*   - index.c: index_pattern                             (SpecIndex)      *)
(* Every pthread call and every access to shared memory is one step of     *)
(* the thread that makes it, so the interleavings of the model are those   *)
(* of preemptible OS threads.  The variables of the parts a specification  *)
(* does not run stay at the values of a frame not yet in use.              *)
EXTENDS Integers, Sequences, FiniteSets, Bags, TLC

(* ------------------------------ bounds --------------------------------- *)

MaxTasks == 3        \* largest n_tasks given to run_thread_range
MaxThreads == 2      \* largest n_threads given to either scheduler
MaxCap == 3          \* largest max given to run_threads
MaxJobs == 2         \* largest n_to_do of the job factory (create_job)
MaxHKL == 1          \* largest |h| of a simulated reflection (one index axis)
MaxRefl == 2         \* most reflections in one simulated crystal
MaxImages == 2       \* most patterns in partialator's input stream
MaxIter == 2         \* largest <n> given to partialator's --iterations
MaxOsf == 2          \* largest overall scale factor, in units of the tolerance
MaxMethods == 2      \* most indexing methods prepared for indexamajig
MaxWidth == 24       \* width of the panel searched for peaks, in pixels
MaxHeight == 3       \* height of the panel searched for peaks, in pixels
MaxSpots == 2        \* most spots put on a panel
MaxPeaks == 5        \* longest feature list given to cull_peaks alone
MaxAxis == 1         \* longest crystallographic axis length given to a cell
MaxRp == 2           \* largest profile radius, in units of excitation error
MaxPredicted == 2    \* most reflections in one predicted list
MaxEntries == 2      \* most entries in one received msgpack map
MaxOndaPeaks == 2    \* most peaks in one "peak_list" value
MaxPanels == 2       \* most panels in the detector an image is read for
MaxClimbWidth == 72  \* width of the panel a hill climb is followed on
MaxCells == 2        \* most candidate cells one indexing method returns
MaxRecip == 1        \* largest component of a reciprocal axis of the cell

(* --------------------------- program constants -------------------------- *)

TASK_READY == 0
TASK_RUNNING == 1
TASK_FINISHED == 2

NoOwner == -1        \* the mutex is free
NULL == 0            \* the null pointer (no label, no task)

VARIABLES
    (* range mode: run_thread_range's frame and its workers *)
    q,              \* struct task_queue_range: lock, n_tasks, status, n_done,
                    \* text
    n_threads,      \* run_thread_range's n_threads (clamped, cut on failure)
    arg_threads,    \* the n_threads the caller passed
    rpc,            \* where run_thread_range is
    ri,             \* its loop variable i
    rw,             \* per worker: pc and the locals i, found, mytask
    calls,          \* per index: how often q.work was invoked with it
    counter,        \* the shared counter the work function increments
    progress,       \* the values handed to progress_bar, in call order
    n_errors,       \* ERROR("Couldn't start thread") messages so far
    stop,           \* the shared stop flag carried by the caller's context
    (* streaming mode: run_threads' frame and its workers *)
    tq,             \* struct task_queue: lock, n_started, n_completed, max
    t_threads,      \* run_threads' n_threads (cut on failure)
    tpc,            \* where run_threads is
    ti,             \* its loop variable i
    tw,             \* per worker: pc and the local task
    qargs,          \* partial_sim's queue_args: n_started, n_to_do, n_done
    stream,         \* the output stream: one entry per write_chunk
    worked,         \* per task handle: how often q.work was invoked with it
    gt_calls,       \* the values of tq.n_started at each get_task call
    retval,         \* what run_threads returned
    (* partial_sim: calculate_partials and the shared full list *)
    full,           \* the shared RefList: entries hkl, redundancy, lock
    full_lock,      \* the pthread_rwlock_t: its readers and its writer
    random_intensities, \* partial_sim's flag (no input list was given)
    cp,             \* per worker: where calculate_partials is, its locals,
                    \* and which of its crystal's reflections got redundancy 0
    (* partialator: main *)
    pa_args,        \* the command line
    pa,             \* main's frame: pc, the option variables, n_iter, i, status
    pimages,        \* images[]: osf and the reflections with their flags
    pfull,          \* the merged full list of the last scale_intensities
    (* indexamajig: main *)
    ia_args,        \* struct indexamajig_arguments as argp_parse leaves it
    ia,             \* main's frame: pc, fh, det, ..., timeout, r, status,
                    \* args.iargs.tols and the tols given to setup_indexing
    (* peaks: search_peaks *)
    pk_image,       \* struct image: width, height, data
    pk_features,    \* image->features: x, y, intensity, valid
    pk,             \* search_peaks' frame: pc, x, y and its counters
    (* cell: one UnitCell and its caller *)
    cell,           \* the UnitCell: rep and the fields of the three forms
    cell_out,       \* the last call on it: function, return value, outputs
    (* prediction and partiality: scan_partialities of the gradient check *)
    pt_compare,     \* per reflection: what find_refl(compare, ...) gives
    pt,             \* scan_partialities' frame: i, valid, vals, n_err
    (* zmq: one msgpack object received and the image it is read into *)
    zmq_obj,        \* the msgpack map: its entries, key and value, in order
    zmq_image,      \* struct image: det, features, num_peaks, dp, bad, sat
                    \* (an array first, then its buffer of each panel)
    zmq,            \* the calls made: return values, messages, the heap
    (* index: index_pattern on one image *)
    ix_args,        \* its arguments: indm, cellr, config_insane
    ix,             \* its frame: pc, n, i, the image's candidate cells and
                    \* indexed_cell, and the methods run so far
    (* match_cell: one candidate cell matched against a template *)
    mc_args,        \* what cell_get_reciprocal gives for template and cell
    mc              \* its frame: pc, n1l, n2l, n3l, ncand, the highest index
                    \* written in each cand[i], the messages, new_cell

vars == <<q, n_threads, arg_threads, rpc, ri, rw, calls, counter, progress,
          n_errors, stop, tq, t_threads, tpc, ti, tw, qargs, stream, worked,
          gt_calls, retval, full, full_lock, random_intensities, cp,
          pa_args, pa, pimages, pfull, ia_args, ia, pk_image, pk_features,
          pk, cell, cell_out, pt_compare, pt, zmq_obj, zmq_image, zmq,
          ix_args, ix, mc_args, mc>>

(* the variables the actions of one part leave alone *)
not_range_vars == <<tq, t_threads, tpc, ti, tw, qargs, stream, worked,
    gt_calls, retval, full, full_lock, random_intensities, cp, pa_args, pa,
    pimages, pfull, ia_args, ia, pk_image, pk_features, pk, cell, cell_out,
    pt_compare, pt, zmq_obj, zmq_image, zmq, ix_args, ix, mc_args, mc>>
not_task_vars == <<q, n_threads, arg_threads, rpc, ri, rw, calls,
    counter, progress, n_errors, stop, full, full_lock, random_intensities,
    cp, pa_args, pa, pimages, pfull, ia_args, ia, pk_image, pk_features, pk,
    cell, cell_out, pt_compare, pt, zmq_obj, zmq_image, zmq, ix_args, ix,
    mc_args, mc>>
not_partial_vars == <<q, n_threads, arg_threads, rpc, ri, rw, calls,
    counter, progress, n_errors, stop, tq, t_threads, tpc, ti, tw, qargs,
    stream, worked, gt_calls, retval, pa_args, pa, pimages, pfull, ia_args,
    ia, pk_image, pk_features, pk, cell, cell_out, pt_compare, pt, zmq_obj,
    zmq_image, zmq, ix_args, ix, mc_args, mc>>
not_partialator_vars == <<q, n_threads, arg_threads, rpc, ri, rw, calls,
    counter, progress, n_errors, stop, tq, t_threads, tpc, ti, tw, qargs,
    stream, worked, gt_calls, retval, full, full_lock, random_intensities,
    cp, ia_args, ia, pk_image, pk_features, pk, cell, cell_out, pt_compare,
    pt, zmq_obj, zmq_image, zmq, ix_args, ix, mc_args, mc>>
not_indexamajig_vars == <<q, n_threads, arg_threads, rpc, ri, rw, calls,
    counter, progress, n_errors, stop, tq, t_threads, tpc, ti, tw, qargs,
    stream, worked, gt_calls, retval, full, full_lock, random_intensities,
    cp, pa_args, pa, pimages, pfull, pk_image, pk_features, pk, cell,
    cell_out, pt_compare, pt, zmq_obj, zmq_image, zmq, ix_args, ix, mc_args,
    mc>>
not_peak_vars == <<q, n_threads, arg_threads, rpc, ri, rw, calls,
    counter, progress, n_errors, stop, tq, t_threads, tpc, ti, tw, qargs,
    stream, worked, gt_calls, retval, full, full_lock, random_intensities,
    cp, pa_args, pa, pimages, pfull, ia_args, ia, cell, cell_out,
    pt_compare, pt, zmq_obj, zmq_image, zmq, ix_args, ix, mc_args, mc>>
not_cell_vars == <<q, n_threads, arg_threads, rpc, ri, rw, calls,
    counter, progress, n_errors, stop, tq, t_threads, tpc, ti, tw, qargs,
    stream, worked, gt_calls, retval, full, full_lock, random_intensities,
    cp, pa_args, pa, pimages, pfull, ia_args, ia, pk_image, pk_features, pk,
    pt_compare, pt, zmq_obj, zmq_image, zmq, ix_args, ix, mc_args, mc>>
not_partiality_vars == <<q, n_threads, arg_threads, rpc, ri, rw, calls,
    counter, progress, n_errors, stop, tq, t_threads, tpc, ti, tw, qargs,
    stream, worked, gt_calls, retval, full, full_lock, random_intensities,
    cp, pa_args, pa, pimages, pfull, ia_args, ia, pk_image, pk_features, pk,
    cell, cell_out, zmq_obj, zmq_image, zmq, ix_args, ix, mc_args, mc>>
not_zmq_vars == <<q, n_threads, arg_threads, rpc, ri, rw, calls,
    counter, progress, n_errors, stop, tq, t_threads, tpc, ti, tw, qargs,
    stream, worked, gt_calls, retval, full, full_lock, random_intensities,
    cp, pa_args, pa, pimages, pfull, ia_args, ia, pk_image, pk_features, pk,
    cell, cell_out, pt_compare, pt, ix_args, ix, mc_args, mc>>
not_index_vars == <<q, n_threads, arg_threads, rpc, ri, rw, calls,
    counter, progress, n_errors, stop, tq, t_threads, tpc, ti, tw, qargs,
    stream, worked, gt_calls, retval, full, full_lock, random_intensities,
    cp, pa_args, pa, pimages, pfull, ia_args, ia, pk_image, pk_features, pk,
    cell, cell_out, pt_compare, pt, zmq_obj, zmq_image, zmq, mc_args, mc>>
not_match_vars == <<q, n_threads, arg_threads, rpc, ri, rw, calls,
    counter, progress, n_errors, stop, tq, t_threads, tpc, ti, tw, qargs,
    stream, worked, gt_calls, retval, full, full_lock, random_intensities,
    cp, pa_args, pa, pimages, pfull, ia_args, ia, pk_image, pk_features, pk,
    cell, cell_out, pt_compare, pt, zmq_obj, zmq_image, zmq, ix_args, ix>>

Workers == 0 .. (MaxThreads - 1)

(* ------------------------------- helpers -------------------------------- *)

Slots == 0 .. (q.n_tasks - 1)

ReadySlots == { i \in Slots : q.status[i] = TASK_READY }
FinishedSlots == { i \in Slots : q.status[i] = TASK_FINISHED }

Abs(x) == IF x < 0 THEN 0 - x ELSE x
Min(S) == CHOOSE x \in S : \A y \in S : x <= y

(* ---- float values: the quotient n/d of two ints, d >= 0 and in lowest  *)
(* terms; d = 0 is +infinity (n = 1), -infinity (n = -1) or NaN (n = 0).   *)
(* Rounding to float precision is left out.                                *)
RECURSIVE GCD(_, _)
GCD(a, b) == IF b = 0 THEN a ELSE GCD(b, a % b)

FloatDiv(n, d) ==
    LET Sign(k) == IF k > 0 THEN 1 ELSE IF k < 0 THEN -1 ELSE 0
    IN IF d = 0 THEN [n |-> Sign(n), d |-> 0]
       ELSE LET g == GCD(Abs(n), Abs(d))
            IN [n |-> Sign(d) * (n \div g), d |-> Abs(d) \div g]

FromInt(k) == [n |-> k, d |-> 1]

(* every part but the named one holds the values of a frame not yet in use *)
IdleAllBut(part) ==
    /\ IF part = "range" THEN TRUE
       ELSE
            /\ q = [lock |-> NoOwner, n_tasks |-> 0, status |-> <<>>,
                     n_done |-> 0, text |-> NULL]
            /\ n_threads = 0
            /\ arg_threads = 0
            /\ rpc = "idle"
            /\ ri = 0
            /\ rw = [w \in Workers |->
                        [pc |-> "unborn", i |-> 0, found |-> 0, mytask |-> -1]]
            /\ calls = <<>>
            /\ counter = 0
            /\ progress = <<>>
            /\ n_errors = 0
            /\ stop = FALSE
    /\ IF part = "tasks" THEN TRUE
       ELSE
            /\ tq = [lock |-> NoOwner, n_started |-> 0, n_completed |-> 0,
                     max |-> 0, get_task |-> "NULL"]
            /\ t_threads = 0
            /\ tpc = "idle"
            /\ ti = 0
            /\ tw = [w \in Workers |-> [pc |-> "unborn", task |-> NULL]]
            /\ qargs = [n_started |-> 0, n_to_do |-> 0, n_done |-> 0]
            /\ stream = <<>>
            /\ worked = [t \in 1 .. MaxJobs |-> 0]
            /\ gt_calls = <<>>
            /\ retval = -1
    /\ IF part = "partials" THEN TRUE
       ELSE
            /\ full = <<>>
            /\ full_lock = [readers |-> {}, writer |-> NoOwner]
            /\ random_intensities = 0
            /\ cp = [w \in Workers |->
                        [pc |-> "idle", refls |-> <<>>, pos |-> 0,
                         rfull |-> NULL, red |-> 0, nored |-> {}]]
    /\ IF part = "partialator" THEN TRUE
       ELSE
            /\ pa_args = "none"
            /\ pa = [pc |-> "idle"]
            /\ pimages = <<>>
            /\ pfull = <<>>
    /\ IF part = "indexamajig" THEN TRUE
       ELSE
            /\ ia_args = "none"
            /\ ia = [pc |-> "idle"]
    /\ IF part = "peaks" THEN TRUE
       ELSE
            /\ pk_image = [width |-> 0, height |-> 0, data |-> <<>>]
            /\ pk_features = <<>>
            /\ pk = [pc |-> "idle"]
    /\ IF part = "cell" THEN TRUE
       ELSE
            /\ cell = [rep |-> "NULL"]
            /\ cell_out = [fn |-> "none", r |-> "none", written |-> FALSE,
                           out |-> <<>>]
    /\ IF part = "partiality" THEN TRUE
       ELSE
            /\ pt_compare = <<>>
            /\ pt = [pc |-> "idle"]
    /\ IF part = "zmq" THEN TRUE
       ELSE
            /\ zmq_obj = <<>>
            /\ zmq_image = [det |-> <<>>]
            /\ zmq = [pc |-> "idle"]
    /\ IF part = "index" THEN TRUE
       ELSE
            /\ ix_args = [indm |-> <<>>]
            /\ ix = [pc |-> "idle"]
    /\ IF part = "match" THEN TRUE
       ELSE
            /\ mc_args = [template |-> <<>>]
            /\ mc = [pc |-> "idle"]

(* ======================================================================= *)
(* Range mode                                                              *)
(* ======================================================================= *)

(* run_thread_range(n_tasks, n_threads, text, work, work_args) is called *)
InitRange ==
    /\ \E T \in 0 .. MaxTasks, N \in 1 .. MaxThreads, txt \in {NULL, 1} :
          /\ q = [lock |-> NoOwner, n_tasks |-> T,
                  status |-> [i \in 0 .. (T - 1) |-> TASK_READY],
                  n_done |-> 0, text |-> txt]
          /\ n_threads = N
          /\ arg_threads = N
          /\ calls = [i \in 0 .. (T - 1) |-> 0]
    /\ rpc = "clamp"
    /\ ri = 0
    /\ rw = [w \in Workers |-> [pc |-> "unborn", i |-> 0, found |-> 0,
                                mytask |-> -1]]
    /\ counter = 0
    /\ progress = <<>>
    /\ n_errors = 0
    /\ stop = FALSE
    /\ IdleAllBut("range")

(* thread-pool.c:102  if ( n_threads > n_tasks ) n_threads = n_tasks; *)
ClampThreads_None(n, t) == n

ClampThreads(n, t) == IF n > t THEN t ELSE n

RangeClamp ==
    /\ rpc = "clamp"
    /\ n_threads' = ClampThreads(n_threads, q.n_tasks)
    /\ rpc' = "create"
    /\ ri' = 0
    /\ UNCHANGED <<q, arg_threads, rw, calls, counter, progress, n_errors,
                   stop, not_range_vars>>

(* thread-pool.c:119-121  pthread_create succeeds: worker i starts running *)
RangeCreate ==
    /\ rpc = "create"
    /\ ri < n_threads
    /\ rw' = [rw EXCEPT ![ri].pc = "get_lock"]
    /\ ri' = ri + 1
    /\ UNCHANGED <<q, n_threads, arg_threads, rpc, calls, counter, progress,
                   n_errors, stop, not_range_vars>>

(* thread-pool.c:121-125  pthread_create fails: report, n_threads = i, break *)
RangeCreateFail ==
    /\ rpc = "create"
    /\ ri < n_threads
    /\ n_errors' = n_errors + 1
    /\ n_threads' = ri
    /\ rpc' = "join"
    /\ ri' = 0
    /\ UNCHANGED <<q, arg_threads, rw, calls, counter, progress, stop,
                   not_range_vars>>

(* thread-pool.c:119  the creation loop ends, the join loop begins *)
RangeCreated ==
    /\ rpc = "create"
    /\ ri >= n_threads
    /\ rpc' = "join"
    /\ ri' = 0
    /\ UNCHANGED <<q, n_threads, arg_threads, rw, calls, counter, progress,
                   n_errors, stop, not_range_vars>>

(* thread-pool.c:130-132  pthread_join(workers[i]) returns once i has exited *)
RangeJoin ==
    /\ rpc = "join"
    /\ ri < n_threads
    /\ rw[ri].pc = "exited"
    /\ ri' = ri + 1
    /\ UNCHANGED <<q, n_threads, arg_threads, rpc, rw, calls, counter,
                   progress, n_errors, stop, not_range_vars>>

(* thread-pool.c:130-136  the join loop ends and run_thread_range returns *)
RangeReturn ==
    /\ rpc = "join"
    /\ ri >= n_threads
    /\ rpc' = "returned"
    /\ UNCHANGED <<q, n_threads, arg_threads, ri, rw, calls, counter,
                   progress, n_errors, stop, not_range_vars>>

(* ---- range_worker ---- *)

(* thread-pool.c:63  pthread_mutex_lock(&q->lock) blocks until the lock is *)
(* free; the locals are reset for this turn (lines 58-60, 64)              *)
RangeGetLock_NoWait(w) ==
    /\ rw[w].pc = "get_lock"
    /\ q' = [q EXCEPT !.lock = w]
    /\ rw' = [rw EXCEPT ![w] = [pc |-> "scan", i |-> 0, found |-> 0,
                                mytask |-> -1]]
    /\ UNCHANGED <<n_threads, arg_threads, rpc, ri, calls, counter, progress,
                   n_errors, stop, not_range_vars>>

RangeGetLock_FromOne(w) ==
    /\ rw[w].pc = "get_lock"
    /\ q.lock = NoOwner
    /\ q' = [q EXCEPT !.lock = w]
    /\ rw' = [rw EXCEPT ![w] = [pc |-> "scan", i |-> 1, found |-> 0,
                                mytask |-> -1]]
    /\ UNCHANGED <<n_threads, arg_threads, rpc, ri, calls, counter, progress,
                   n_errors, stop, not_range_vars>>

RangeGetLock(w) ==
    /\ rw[w].pc = "get_lock"
    /\ q.lock = NoOwner
    /\ q' = [q EXCEPT !.lock = w]
    /\ rw' = [rw EXCEPT ![w] = [pc |-> "scan", i |-> 0, found |-> 0,
                                mytask |-> -1]]
    /\ UNCHANGED <<n_threads, arg_threads, rpc, ri, calls, counter, progress,
                   n_errors, stop, not_range_vars>>

(* thread-pool.c:64-65  one turn of the scan loop: the loop test and the   *)
(* read of q->status[i]                                                    *)
RangeScan(w) ==
    /\ rw[w].pc = "scan"
    /\ rw' = IF rw[w].i < q.n_tasks
             THEN IF q.status[rw[w].i] = TASK_READY
                  THEN [rw EXCEPT ![w].pc = "claim"]
                  ELSE [rw EXCEPT ![w].i = rw[w].i + 1]
             ELSE [rw EXCEPT ![w].pc = "get_unlock"]
    /\ UNCHANGED <<q, n_threads, arg_threads, rpc, ri, calls, counter,
                   progress, n_errors, stop, not_range_vars>>

(* thread-pool.c:66-69  mytask = i; found = 1; status[i] = RUNNING; break; *)
RangeClaim(w) ==
    /\ rw[w].pc = "claim"
    /\ q' = [q EXCEPT !.status[rw[w].i] = TASK_RUNNING]
    /\ rw' = [rw EXCEPT ![w].mytask = rw[w].i,
                        ![w].found = 1,
                        ![w].pc = "get_unlock"]
    /\ UNCHANGED <<n_threads, arg_threads, rpc, ri, calls, counter, progress,
                   n_errors, stop, not_range_vars>>

(* thread-pool.c:72-75  unlock; if ( !found ) break; *)
RangeGetUnlock(w) ==
    /\ rw[w].pc = "get_unlock"
    /\ q' = [q EXCEPT !.lock = NoOwner]
    /\ rw' = [rw EXCEPT ![w].pc = IF rw[w].found = 0 THEN "exited"
                                                      ELSE "work"]
    /\ UNCHANGED <<n_threads, arg_threads, rpc, ri, calls, counter, progress,
                   n_errors, stop, not_range_vars>>

(* thread-pool.c:77  q->work(mytask, q->work_args): the work function      *)
(* increments a shared counter (atomically, under a lock of its own)       *)
RangeWork(w) ==
    /\ rw[w].pc = "work"
    /\ calls' = [calls EXCEPT ![rw[w].mytask] = calls[rw[w].mytask] + 1]
    /\ counter' = counter + 1
    /\ rw' = [rw EXCEPT ![w].pc = "done_lock"]
    /\ UNCHANGED <<q, n_threads, arg_threads, rpc, ri, progress, n_errors,
                   stop, not_range_vars>>

(* thread-pool.c:80  pthread_mutex_lock(&q->lock) after the work *)
RangeDoneLock_NoWait(w) ==
    /\ rw[w].pc = "done_lock"
    /\ q' = [q EXCEPT !.lock = w]
    /\ rw' = [rw EXCEPT ![w].pc = "mark"]
    /\ UNCHANGED <<n_threads, arg_threads, rpc, ri, calls, counter, progress,
                   n_errors, stop, not_range_vars>>

RangeDoneLock(w) ==
    /\ rw[w].pc = "done_lock"
    /\ q.lock = NoOwner
    /\ q' = [q EXCEPT !.lock = w]
    /\ rw' = [rw EXCEPT ![w].pc = "mark"]
    /\ UNCHANGED <<n_threads, arg_threads, rpc, ri, calls, counter, progress,
                   n_errors, stop, not_range_vars>>

(* thread-pool.c:81  q->status[mytask] = TASK_FINISHED; *)
RangeMark(w) ==
    /\ rw[w].pc = "mark"
    /\ q' = [q EXCEPT !.status[rw[w].mytask] = TASK_FINISHED]
    /\ rw' = [rw EXCEPT ![w].pc = "count"]
    /\ UNCHANGED <<n_threads, arg_threads, rpc, ri, calls, counter, progress,
                   n_errors, stop, not_range_vars>>

(* thread-pool.c:82  q->n_done++; *)
RangeCount(w) ==
    /\ rw[w].pc = "count"
    /\ q' = [q EXCEPT !.n_done = q.n_done + 1]
    /\ rw' = [rw EXCEPT ![w].pc = "report"]
    /\ UNCHANGED <<n_threads, arg_threads, rpc, ri, calls, counter, progress,
                   n_errors, stop, not_range_vars>>

(* thread-pool.c:83-85  progress_bar(q->n_done, ...) when a label was given *)
RangeReport(w) ==
    /\ rw[w].pc = "report"
    /\ progress' = IF q.text # NULL THEN Append(progress, q.n_done)
                                    ELSE progress
    /\ rw' = [rw EXCEPT ![w].pc = "done_unlock"]
    /\ UNCHANGED <<q, n_threads, arg_threads, rpc, ri, calls, counter,
                   n_errors, stop, not_range_vars>>

(* thread-pool.c:86-88  unlock and go round the do-while again *)
RangeDoneUnlock(w) ==
    /\ rw[w].pc = "done_unlock"
    /\ q' = [q EXCEPT !.lock = NoOwner]
    /\ rw' = [rw EXCEPT ![w].pc = "get_lock"]
    /\ UNCHANGED <<n_threads, arg_threads, rpc, ri, calls, counter, progress,
                   n_errors, stop, not_range_vars>>

(* the caller's context raises its stop flag (at any time, once) *)
SetStop ==
    /\ rpc \notin {"idle", "returned"}
    /\ stop = FALSE
    /\ stop' = TRUE
    /\ UNCHANGED <<q, n_threads, arg_threads, rpc, ri, rw, calls, counter,
                   progress, n_errors, not_range_vars>>

NextRange ==
    \/ RangeClamp
    \/ RangeCreate
    \/ RangeCreateFail
    \/ RangeCreated
    \/ RangeJoin
    \/ RangeReturn
    \/ SetStop
    \/ \E w \in Workers : RangeGetLock(w)
    \/ \E w \in Workers : RangeScan(w)
    \/ \E w \in Workers : RangeClaim(w)
    \/ \E w \in Workers : RangeGetUnlock(w)
    \/ \E w \in Workers : RangeWork(w)
    \/ \E w \in Workers : RangeDoneLock(w)
    \/ \E w \in Workers : RangeMark(w)
    \/ \E w \in Workers : RangeCount(w)
    \/ \E w \in Workers : RangeReport(w)
    \/ \E w \in Workers : RangeDoneUnlock(w)

SpecRange == InitRange /\ [][NextRange]_vars

(* ======================================================================= *)
(* Streaming mode                                                          *)
(* ======================================================================= *)

(* partial_sim.c:245-261  create_job: NULL once n_to_do jobs were handed    *)
(* out, else the next job (its handle is its number, 1, 2, ...)            *)
create_job_task(qa) ==
    IF qa.n_started = qa.n_to_do THEN NULL ELSE qa.n_started + 1

create_job_qargs(qa) ==
    IF qa.n_started = qa.n_to_do THEN qa
    ELSE [qa EXCEPT !.n_started = qa.n_started + 1]

(* partialator.c:97-110  get_image: the task for images[qargs->n] (its     *)
(* handle is n + 1), whatever n is, and n++                                *)
get_image(qa) == [task |-> qa.n + 1, qargs |-> [qa EXCEPT !.n = @ + 1]]

(* run_threads(n_threads, work, get_task, queue_args, max) is called *)
InitTasks ==
    /\ \E N \in 1 .. MaxThreads, cap \in 0 .. MaxCap, jobs \in 0 .. MaxJobs :
          /\ tq = [lock |-> NoOwner, n_started |-> 0, n_completed |-> 0,
                   max |-> cap, get_task |-> "create_job"]
          /\ t_threads = N
          /\ qargs = [n_started |-> 0, n_to_do |-> jobs, n_done |-> 0]
    /\ tpc = "create"
    /\ ti = 0
    /\ tw = [w \in Workers |-> [pc |-> "unborn", task |-> NULL]]
    /\ stream = <<>>
    /\ worked = [t \in 1 .. MaxJobs |-> 0]
    /\ gt_calls = <<>>
    /\ retval = -1
    /\ IdleAllBut("tasks")

(* thread-pool.c:211-213  pthread_create succeeds: worker i starts running *)
TasksCreate ==
    /\ tpc = "create"
    /\ ti < t_threads
    /\ tw' = [tw EXCEPT ![ti].pc = "get_lock"]
    /\ ti' = ti + 1
    /\ UNCHANGED <<tq, t_threads, tpc, qargs, stream, worked, gt_calls,
                   retval, not_task_vars>>

(* thread-pool.c:213-217  pthread_create fails: report, n_threads = i, break *)
TasksCreateFail ==
    /\ tpc = "create"
    /\ ti < t_threads
    /\ t_threads' = ti
    /\ tpc' = "join"
    /\ ti' = 0
    /\ UNCHANGED <<tq, tw, qargs, stream, worked, gt_calls, retval,
                   not_task_vars>>

(* thread-pool.c:211  the creation loop ends, the join loop begins *)
TasksCreated ==
    /\ tpc = "create"
    /\ ti >= t_threads
    /\ tpc' = "join"
    /\ ti' = 0
    /\ UNCHANGED <<tq, t_threads, tw, qargs, stream, worked, gt_calls,
                   retval, not_task_vars>>

(* thread-pool.c:222-224  pthread_join(workers[i]) returns once i has exited *)
TasksJoin ==
    /\ tpc = "join"
    /\ ti < t_threads
    /\ tw[ti].pc = "exited"
    /\ ti' = ti + 1
    /\ UNCHANGED <<tq, t_threads, tpc, tw, qargs, stream, worked, gt_calls,
                   retval, not_task_vars>>

(* thread-pool.c:222-228  the join loop ends; return q.n_completed; *)
TasksReturn ==
    /\ tpc = "join"
    /\ ti >= t_threads
    /\ retval' = tq.n_completed
    /\ tpc' = "returned"
    /\ UNCHANGED <<tq, t_threads, ti, tw, qargs, stream, worked, gt_calls,
                   not_task_vars>>

(* ---- task_worker ---- *)

(* thread-pool.c:164  pthread_mutex_lock(&q->lock) before get_task *)
TaskGetLock(w) ==
    /\ tw[w].pc = "get_lock"
    /\ tq.lock = NoOwner
    /\ tq' = [tq EXCEPT !.lock = w]
    /\ tw' = [tw EXCEPT ![w].pc = "check_max"]
    /\ UNCHANGED <<t_threads, tpc, ti, qargs, stream, worked, gt_calls,
                   retval, not_task_vars>>

(* thread-pool.c:165  if ( q->n_started >= q->max ) *)
CapReached_Late(started, cap) == started > cap

CapReached(started, cap) == started >= cap

(* thread-pool.c:165-168  the cap test: unlock and leave once max started *)
TaskCheckMax(w) ==
    /\ tw[w].pc = "check_max"
    /\ IF CapReached(tq.n_started, tq.max)
       THEN /\ tq' = [tq EXCEPT !.lock = NoOwner]
            /\ tw' = [tw EXCEPT ![w].pc = "exited"]
       ELSE /\ tw' = [tw EXCEPT ![w].pc = "get_task"]
            /\ UNCHANGED tq
    /\ UNCHANGED <<t_threads, tpc, ti, qargs, stream, worked, gt_calls,
                   retval, not_task_vars>>

(* thread-pool.c:169  task = q->get_task(q->queue_args); *)
TaskGetTask(w) ==
    /\ tw[w].pc = "get_task"
    /\ tw' = [tw EXCEPT ![w].task = IF tq.get_task = "get_image"
                                    THEN get_image(qargs).task
                                    ELSE create_job_task(qargs),
                        ![w].pc = "check_null"]
    /\ qargs' = IF tq.get_task = "get_image" THEN get_image(qargs).qargs
                ELSE create_job_qargs(qargs)
    /\ gt_calls' = Append(gt_calls, [by |-> w, lock |-> tq.lock,
                                     n_started |-> tq.n_started,
                                     queue_args |-> qargs])
    /\ UNCHANGED <<tq, t_threads, tpc, ti, stream, worked, retval,
                   not_task_vars>>

(* thread-pool.c:172-175  if ( task == NULL ) { unlock; break; } *)
TaskCheckNull(w) ==
    /\ tw[w].pc = "check_null"
    /\ IF tw[w].task = NULL
       THEN /\ tq' = [tq EXCEPT !.lock = NoOwner]
            /\ tw' = [tw EXCEPT ![w].pc = "exited"]
       ELSE /\ tw' = [tw EXCEPT ![w].pc = "count_start"]
            /\ UNCHANGED tq
    /\ UNCHANGED <<t_threads, tpc, ti, qargs, stream, worked, gt_calls,
                   retval, not_task_vars>>

(* thread-pool.c:177  q->n_started++; *)
TaskCountStart(w) ==
    /\ tw[w].pc = "count_start"
    /\ tq' = [tq EXCEPT !.n_started = tq.n_started + 1]
    /\ tw' = [tw EXCEPT ![w].pc = "get_unlock"]
    /\ UNCHANGED <<t_threads, tpc, ti, qargs, stream, worked, gt_calls,
                   retval, not_task_vars>>

(* thread-pool.c:178  pthread_mutex_unlock(&q->lock); *)
TaskGetUnlock(w) ==
    /\ tw[w].pc = "get_unlock"
    /\ tq' = [tq EXCEPT !.lock = NoOwner]
    /\ tw' = [tw EXCEPT ![w].pc = "work"]
    /\ UNCHANGED <<t_threads, tpc, ti, qargs, stream, worked, gt_calls,
                   retval, not_task_vars>>

(* thread-pool.c:180  q->work(task);  (partial_sim's run_job) *)
TaskWork(w) ==
    /\ tw[w].pc = "work"
    /\ worked' = [worked EXCEPT ![tw[w].task] = worked[tw[w].task] + 1]
    /\ tw' = [tw EXCEPT ![w].pc = "done_lock"]
    /\ UNCHANGED <<tq, t_threads, tpc, ti, qargs, stream, gt_calls, retval,
                   not_task_vars>>

(* thread-pool.c:183  pthread_mutex_lock(&q->lock) after the work *)
TaskDoneLock(w) ==
    /\ tw[w].pc = "done_lock"
    /\ tq.lock = NoOwner
    /\ tq' = [tq EXCEPT !.lock = w]
    /\ tw' = [tw EXCEPT ![w].pc = "count_done"]
    /\ UNCHANGED <<t_threads, tpc, ti, qargs, stream, worked, gt_calls,
                   retval, not_task_vars>>

(* thread-pool.c:184  q->n_completed++;  (nothing else happens here) *)
TaskCountDone(w) ==
    /\ tw[w].pc = "count_done"
    /\ tq' = [tq EXCEPT !.n_completed = tq.n_completed + 1]
    /\ tw' = [tw EXCEPT ![w].pc = "done_unlock"]
    /\ UNCHANGED <<t_threads, tpc, ti, qargs, stream, worked, gt_calls,
                   retval, not_task_vars>>

(* thread-pool.c:185-187  unlock and go round the do-while again *)
TaskDoneUnlock(w) ==
    /\ tw[w].pc = "done_unlock"
    /\ tq' = [tq EXCEPT !.lock = NoOwner]
    /\ tw' = [tw EXCEPT ![w].pc = "get_lock"]
    /\ UNCHANGED <<t_threads, tpc, ti, qargs, stream, worked, gt_calls,
                   retval, not_task_vars>>

NextTasks ==
    \/ TasksCreate
    \/ TasksCreateFail
    \/ TasksCreated
    \/ TasksJoin
    \/ TasksReturn
    \/ \E w \in Workers : TaskGetLock(w)
    \/ \E w \in Workers : TaskCheckMax(w)
    \/ \E w \in Workers : TaskGetTask(w)
    \/ \E w \in Workers : TaskCheckNull(w)
    \/ \E w \in Workers : TaskCountStart(w)
    \/ \E w \in Workers : TaskGetUnlock(w)
    \/ \E w \in Workers : TaskWork(w)
    \/ \E w \in Workers : TaskDoneLock(w)
    \/ \E w \in Workers : TaskCountDone(w)
    \/ \E w \in Workers : TaskDoneUnlock(w)

SpecTasks == InitTasks /\ [][NextTasks]_vars

(* partialator.c:124-148  refine_all: the queue arguments, nthreads cut to *)
(* the number of patterns, and run_threads with get_image and              *)
(* max = n_total_patterns; a task is the refinement of one image           *)
InitRefine ==
    /\ \E nthreads \in 1 .. MaxThreads, n_total_patterns \in 0 .. MaxImages :
          /\ tq = [lock |-> NoOwner, n_started |-> 0, n_completed |-> 0,
                   max |-> n_total_patterns, get_task |-> "get_image"]
          /\ t_threads = IF n_total_patterns < nthreads
                         THEN n_total_patterns ELSE nthreads
          /\ qargs = [n |-> 0, n_done |-> 0,
                      n_total_patterns |-> n_total_patterns]
    /\ tpc = "create"
    /\ ti = 0
    /\ tw = [w \in Workers |-> [pc |-> "unborn", task |-> NULL]]
    /\ stream = <<>>
    /\ worked = [t \in 1 .. (MaxImages + 1) |-> 0]
    /\ gt_calls = <<>>
    /\ retval = -1
    /\ IdleAllBut("tasks")

SpecRefine == InitRefine /\ [][NextTasks]_vars

(* ======================================================================= *)
(* partial_sim: calculate_partials against the shared full list            *)
(* ======================================================================= *)

(* Reflections carry one index h in place of (h,k,l); the point group is   *)
(* -1, under which h and -h are equivalent and the positive one is the     *)
(* asymmetric representative.                                              *)
AsymHKL == 1 .. MaxHKL

(* RefList: find_refl gives the first entry with these indices (as an      *)
(* index into the list) or NULL                                            *)
find_refl(list, h) ==
    IF \E i \in 1 .. Len(list) : list[i].hkl = h
    THEN Min({ i \in 1 .. Len(list) : list[i].hkl = h })
    ELSE NULL

(* a crystal's reflections, in the order first_refl/next_refl visit them   *)
RECURSIVE SortedSeq(_)
SortedSeq(S) ==
    IF S = {} THEN <<>>
    ELSE LET m == CHOOSE x \in S : \A y \in S : x <= y
         IN <<m>> \o SortedSeq(S \ {m})

CrystalRefls ==
    { SortedSeq(S) :
         S \in { R \in SUBSET { h \in (0 - MaxHKL) .. MaxHKL : h # 0 } :
                    Cardinality(R) <= MaxRefl } }

(* the input list of full intensities read from a file (no -r given)       *)
InputLists ==
    { [i \in 1 .. Len(sq) |-> [hkl |-> sq[i], redundancy |-> 1,
                                lock |-> NoOwner]] :
         sq \in { SortedSeq(S) : S \in SUBSET AsymHKL } }

(* the h of the reflection worker w is at, made asymmetric by get_asymm    *)
CurHKL(w) ==
    LET h == cp[w].refls[cp[w].pos]
    IN IF h < 0 THEN 0 - h ELSE h

InitPartials ==
    /\ random_intensities \in {0, 1}
    /\ full \in (IF random_intensities = 1 THEN { <<>> } ELSE InputLists)
    /\ full_lock = [readers |-> {}, writer |-> NoOwner]
    /\ \E rs \in [Workers -> CrystalRefls] :
          cp = [w \in Workers |-> [pc |-> "next", refls |-> rs[w], pos |-> 0,
                                   rfull |-> NULL, red |-> 0,
                                   nored |-> {}]]
    /\ IdleAllBut("partials")

(* the for loop: first_refl / next_refl *)
PartNext(w) ==
    /\ cp[w].pc = "next"
    /\ IF cp[w].pos < Len(cp[w].refls)
       THEN cp' = [cp EXCEPT ![w].pos = @ + 1, ![w].pc = "rdlock",
                             ![w].rfull = NULL]
       ELSE cp' = [cp EXCEPT ![w].pc = "done"]
    /\ UNCHANGED <<full, full_lock, random_intensities, not_partial_vars>>

(* pthread_rwlock_rdlock(full_lock) *)
PartRdLock(w) ==
    /\ cp[w].pc = "rdlock"
    /\ full_lock.writer = NoOwner
    /\ full_lock' = [full_lock EXCEPT !.readers = @ \cup {w}]
    /\ cp' = [cp EXCEPT ![w].pc = "find"]
    /\ UNCHANGED <<full, random_intensities, not_partial_vars>>

(* rfull = find_refl(full, h, k, l) under the read lock *)
PartFind(w) ==
    /\ cp[w].pc = "find"
    /\ cp' = [cp EXCEPT ![w].rfull = find_refl(full, CurHKL(w)),
                        ![w].pc = "rdunlock"]
    /\ UNCHANGED <<full, full_lock, random_intensities, not_partial_vars>>

(* pthread_rwlock_unlock, then the branch on rfull and random_intensities; *)
(* without random intensities a missing reflection only gets               *)
(* set_redundancy(refl, 0) on the crystal's own reflection (nored)         *)
PartRdUnlock(w) ==
    /\ cp[w].pc = "rdunlock"
    /\ full_lock' = [full_lock EXCEPT !.readers = @ \ {w}]
    /\ cp' = [cp EXCEPT
                 ![w].pc =
                    IF cp[w].rfull = NULL
                    THEN (IF random_intensities # 0 THEN "wrlock" ELSE "next")
                    ELSE (IF random_intensities # 0 THEN "lock_refl"
                                                    ELSE "next"),
                 ![w].nored =
                    IF cp[w].rfull = NULL /\ random_intensities = 0
                    THEN @ \cup {cp[w].pos} ELSE @]
    /\ UNCHANGED <<full, random_intensities, not_partial_vars>>

(* pthread_rwlock_wrlock(full_lock) *)
PartWrLock(w) ==
    /\ cp[w].pc = "wrlock"
    /\ full_lock.writer = NoOwner
    /\ full_lock.readers = {}
    /\ full_lock' = [full_lock EXCEPT !.writer = w]
    /\ cp' = [cp EXCEPT ![w].pc = "find2"]
    /\ UNCHANGED <<full, random_intensities, not_partial_vars>>

(* the second lookup left out: the reflection is taken to be still missing *)
PartFind2_NoRecheck(w) ==
    /\ cp[w].pc = "find2"
    /\ cp' = [cp EXCEPT ![w].rfull = NULL, ![w].pc = "add"]
    /\ UNCHANGED <<full, full_lock, random_intensities, not_partial_vars>>

(* the second rfull = find_refl(full, h, k, l), under the write lock *)
PartFind2(w) ==
    /\ cp[w].pc = "find2"
    /\ LET r == find_refl(full, CurHKL(w))
       IN cp' = [cp EXCEPT ![w].rfull = r,
                           ![w].pc = IF r = NULL THEN "add" ELSE "wrunlock"]
    /\ UNCHANGED <<full, full_lock, random_intensities, not_partial_vars>>

(* rfull = add_refl(full, h, k, l); set_intensity; set_redundancy(rfull, 1) *)
PartAdd(w) ==
    /\ cp[w].pc = "add"
    /\ LET added == Append(full, [hkl |-> CurHKL(w), redundancy |-> 0,
                                  lock |-> NoOwner])
       IN /\ full' = [added EXCEPT ![Len(added)].redundancy = 1]
          /\ cp' = [cp EXCEPT ![w].rfull = Len(added), ![w].pc = "wrunlock"]
    /\ UNCHANGED <<full_lock, random_intensities, not_partial_vars>>

(* pthread_rwlock_unlock(full_lock) after the write *)
PartWrUnlock(w) ==
    /\ cp[w].pc = "wrunlock"
    /\ full_lock' = [full_lock EXCEPT !.writer = NoOwner]
    /\ cp' = [cp EXCEPT ![w].pc = "next"]
    /\ UNCHANGED <<full, random_intensities, not_partial_vars>>

(* lock_reflection(rfull) *)
PartLockRefl(w) ==
    /\ cp[w].pc = "lock_refl"
    /\ full[cp[w].rfull].lock = NoOwner
    /\ full' = [full EXCEPT ![cp[w].rfull].lock = w]
    /\ cp' = [cp EXCEPT ![w].pc = "get_red"]
    /\ UNCHANGED <<full_lock, random_intensities, not_partial_vars>>

(* int red = get_redundancy(rfull) *)
PartGetRed(w) ==
    /\ cp[w].pc = "get_red"
    /\ cp' = [cp EXCEPT ![w].red = full[cp[w].rfull].redundancy,
                        ![w].pc = "set_red"]
    /\ UNCHANGED <<full, full_lock, random_intensities, not_partial_vars>>

(* set_redundancy(rfull, red+1) *)
PartSetRed(w) ==
    /\ cp[w].pc = "set_red"
    /\ full' = [full EXCEPT ![cp[w].rfull].redundancy = cp[w].red + 1]
    /\ cp' = [cp EXCEPT ![w].pc = "unlock_refl"]
    /\ UNCHANGED <<full_lock, random_intensities, not_partial_vars>>

(* unlock_reflection(rfull) *)
PartUnlockRefl(w) ==
    /\ cp[w].pc = "unlock_refl"
    /\ full' = [full EXCEPT ![cp[w].rfull].lock = NoOwner]
    /\ cp' = [cp EXCEPT ![w].pc = "next"]
    /\ UNCHANGED <<full_lock, random_intensities, not_partial_vars>>

NextPartials ==
    \E w \in Workers :
       \/ PartNext(w)
       \/ PartRdLock(w)
       \/ PartFind(w)
       \/ PartRdUnlock(w)
       \/ PartWrLock(w)
       \/ PartFind2(w)
       \/ PartAdd(w)
       \/ PartWrUnlock(w)
       \/ PartLockRefl(w)
       \/ PartGetRed(w)
       \/ PartSetRed(w)
       \/ PartUnlockRefl(w)

SpecPartials == InitPartials /\ [][NextPartials]_vars

(* ======================================================================= *)
(* partialator: main                                                       *)
(* ======================================================================= *)

DefaultIter == 10    \* int n_iter = 10

(* the command lines: which options were given and what they name.  -n is  *)
(* the short form, --iterations the long form of the same option.          *)
PaCommandLines ==
    [ h : BOOLEAN,
      i : {"none", "file", "unopenable"},
      g : {"none", "file", "bad"},
      y : {"none", "given"},
      b : {"none", "file", "bad"},
      n : {"none", "short", "long"},
      n_val : 0 .. MaxIter,
      reference : {"none", "file", "bad"} ]

(* the options as getopt_long reports them with the short-option string    *)
(* "hi:g:x:j:y:o:b:" and the long options table: a short option missing    *)
(* from the string comes back as '?'                                       *)
getopt_long(form, name) ==
    LET ShortOptions == {"h", "i", "g", "x", "j", "y", "o", "b"}
        LongOptions == {"help", "input", "output", "geometry", "beam",
                        "symmetry", "iterations", "reference"}
    IN IF form = "short"
       THEN (IF name \in ShortOptions THEN name ELSE "?")
       ELSE (IF name \in LongOptions THEN name ELSE "?")

(* main is entered: its locals as declared *)
InitPartialator ==
    /\ pa_args \in PaCommandLines
    /\ pa_args.n = "none" => pa_args.n_val = 0
    /\ pa = [pc |-> "parse", infile |-> "none", sym |-> "none",
             geomfile |-> "none", beam |-> NULL, n_iter |-> DefaultIter,
             reference_file |-> "none", have_reference |-> 0,
             phase |-> "initial", i |-> 0, dosf |-> MaxOsf, n_read |-> 0,
             status |-> -1]
    /\ pimages = <<>>
    /\ pfull = <<>>
    /\ IdleAllBut("partialator")

PaReturn(code) == [pa EXCEPT !.pc = "exit", !.status = code]

(* the getopt_long loop and its switch; the options come in any order, so  *)
(* when several of them end the program any of these ends may be the one   *)
PaParse ==
    /\ pa.pc = "parse"
    /\ \/ /\ pa_args.h
          /\ pa' = PaReturn(0)
       \/ /\ pa_args.b = "bad"
          /\ pa' = PaReturn(1)
       \/ /\ pa_args.n # "none"
          /\ getopt_long(pa_args.n, IF pa_args.n = "short" THEN "n"
                                                           ELSE "iterations") = "?"
          /\ pa' = PaReturn(1)
       \/ /\ ~pa_args.h
          /\ pa_args.b # "bad"
          /\ pa_args.n # "none" =>
                getopt_long(pa_args.n, IF pa_args.n = "short" THEN "n"
                                                              ELSE "iterations") # "?"
          /\ pa' = [pa EXCEPT
                      !.pc = "open",
                      !.infile = pa_args.i,
                      !.geomfile = pa_args.g,
                      !.sym = pa_args.y,
                      !.beam = IF pa_args.b = "file" THEN 1 ELSE NULL,
                      !.n_iter = IF pa_args.n = "none" THEN DefaultIter
                                                       ELSE pa_args.n_val,
                      !.reference_file = pa_args.reference]
    /\ UNCHANGED <<pa_args, pimages, pfull, not_partialator_vars>>

(* the steps of main between the options and the patterns, one at a time *)
PaSetup ==
    /\ \/ (* "Sanitise input filename and open": no -i means "-", stdin *)
          /\ pa.pc = "open"
          /\ LET name == IF pa.infile = "none" THEN "-" ELSE pa.infile
             IN IF name = "unopenable"
                THEN pa' = PaReturn(1)
                ELSE pa' = [pa EXCEPT !.pc = "geom", !.infile = name]
       \/ (* if ( sym == NULL ) sym = strdup("1"); get_detector_geometry *)
          /\ pa.pc = "geom"
          /\ IF pa.geomfile # "file"
             THEN pa' = [PaReturn(1) EXCEPT
                            !.sym = IF pa.sym = "none" THEN "1" ELSE pa.sym]
             ELSE pa' = [pa EXCEPT
                            !.pc = "beam",
                            !.sym = IF pa.sym = "none" THEN "1" ELSE pa.sym]
       \/ (* if ( beam == NULL ) return 1 *)
          /\ pa.pc = "beam"
          /\ IF pa.beam = NULL
             THEN pa' = PaReturn(1)
             ELSE pa' = [pa EXCEPT !.pc = "reference"]
       \/ (* read_reflections(reference_file) *)
          /\ pa.pc = "reference"
          /\ IF pa.reference_file = "none"
             THEN pa' = [pa EXCEPT !.pc = "load"]
             ELSE IF pa.reference_file = "bad"
                  THEN pa' = PaReturn(1)
                  ELSE pa' = [pa EXCEPT !.pc = "load", !.have_reference = 1]
    /\ UNCHANGED <<pa_args, pimages, pfull, not_partialator_vars>>

(* what select_scalable_reflections may leave on a list of reflections:    *)
(* the flag follows partiality and intensity, which the stream and the     *)
(* refinement decide                                                       *)
Rescaled(refls) ==
    { r \in [1 .. Len(refls) -> [hkl : AsymHKL, scalable : {0, 1},
                                 refinable : {0, 1}]] :
         \A k \in 1 .. Len(refls) :
            /\ r[k].hkl = refls[k].hkl
            /\ r[k].refinable = refls[k].refinable }

(* count_patterns, then the loading loop with select_scalable_reflections; *)
(* LoadedImages: a pattern as read_chunk and asymmetric_indices deliver it *)
PaLoad ==
    /\ pa.pc = "load"
    /\ \E n_total_patterns \in 0 .. MaxImages :
       LET LoadedImages ==
              { [osf |-> 1, reflections |-> r] :
                   r \in UNION { Rescaled([k \in 1 .. Len(sq) |->
                                             [hkl |-> sq[k], scalable |-> 0,
                                              refinable |-> 0]]) :
                                    sq \in { SortedSeq(S) :
                                                S \in SUBSET AsymHKL } } }
       IN
          IF n_total_patterns = 0
          THEN /\ pa' = PaReturn(1)
               /\ pimages' = pimages
          ELSE \E n_usable_patterns \in 0 .. n_total_patterns :
                  /\ pimages' \in [1 .. n_usable_patterns -> LoadedImages]
                  /\ pa' = [pa EXCEPT !.pc = "scale",
                                      !.n_read = n_total_patterns]
    /\ UNCHANGED <<pa_args, pfull, not_partialator_vars>>

(* scale_intensities: one entry of the full list for every (h,k,l) with a  *)
(* scalable observation, its redundancy the number of such observations;   *)
(* the images' scale factors are estimated anew                            *)
scale_intensities(imgs) ==
    LET Observations(im, h) ==
           { <<n, k>> \in (1 .. Len(im)) \X (1 .. MaxHKL) :
                /\ k <= Len(im[n].reflections)
                /\ im[n].reflections[k].hkl = h
                /\ im[n].reflections[k].scalable = 1 }
        present == SortedSeq({ h \in AsymHKL : Observations(imgs, h) # {} })
    IN [k \in 1 .. Len(present) |->
          [hkl |-> present[k],
           redundancy |-> Cardinality(Observations(imgs, present[k])),
           lock |-> NoOwner]]

PaScale ==
    /\ pa.pc = "scale"
    /\ pfull' = scale_intensities(pimages)
    /\ \E osf \in [1 .. Len(pimages) -> 1 .. MaxOsf] :
          /\ pimages' = [n \in 1 .. Len(pimages) |->
                           [pimages[n] EXCEPT !.osf = osf[n]]]
          /\ pa' = [pa EXCEPT
                      !.pc = "select",
                      !.dosf =
                         LET d == {0} \cup { Abs(osf[n] - pimages[n].osf) :
                                                n \in 1 .. Len(pimages) }
                         IN CHOOSE x \in d : \A y \in d : y <= x]
    /\ UNCHANGED <<pa_args, not_partialator_vars>>

(* select_reflections_for_refinement, one reflection *)
select_refinable(refl, flist, have_reference) ==
    IF refl.scalable = 0
    THEN [refl EXCEPT !.refinable = 0]
    ELSE LET f == find_refl(flist, refl.hkl)
         IN IF f # NULL
            THEN (IF flist[f].redundancy >= 2 \/ have_reference # 0
                  THEN [refl EXCEPT !.refinable = 1]
                  ELSE refl)
            ELSE [refl EXCEPT !.refinable = 0]

(* select_reflections_for_refinement over all images, with its assert; in  *)
(* the loop this is the end of a cycle                                     *)
PaSelect ==
    /\ pa.pc = "select"
    /\ LET n_nomatch(img, flist) ==
              Cardinality({ k \in 1 .. Len(img.reflections) :
                 /\ img.reflections[k].scalable # 0
                 /\ find_refl(flist, img.reflections[k].hkl) = NULL })
       IN
       IF \E n \in 1 .. Len(pimages) : n_nomatch(pimages[n], pfull) # 0
       THEN /\ pa' = [pa EXCEPT !.pc = "abort"]
            /\ pimages' = pimages
       ELSE /\ pimages' = [n \in 1 .. Len(pimages) |->
                            [pimages[n] EXCEPT !.reflections =
                               [k \in 1 .. Len(pimages[n].reflections) |->
                                  select_refinable(pimages[n].reflections[k],
                                                   pfull, pa.have_reference)]]]
            /\ pa' = [pa EXCEPT !.pc = "loop", !.phase = "cycle",
                                !.i = IF pa.phase = "cycle" THEN @ + 1 ELSE 0]
    /\ UNCHANGED <<pa_args, pfull, not_partialator_vars>>

(* for ( i=0; i<n_iter; i++ ): the test, and after the loop the output     *)
PaLoop ==
    /\ pa.pc = "loop"
    /\ IF pa.i < pa.n_iter
       THEN pa' = [pa EXCEPT !.pc = "refine"]
       ELSE pa' = PaReturn(0)
    /\ UNCHANGED <<pa_args, pimages, pfull, not_partialator_vars>>

(* refine_all, then update_partialities and select_scalable_reflections    *)
(* for every image                                                         *)
PaRefine ==
    /\ pa.pc = "refine"
    /\ \E r \in [1 .. Len(pimages) -> UNION { Rescaled(pimages[n].reflections) :
                                               n \in 1 .. Len(pimages) }] :
          /\ \A n \in 1 .. Len(pimages) :
                r[n] \in Rescaled(pimages[n].reflections)
          /\ pimages' = [n \in 1 .. Len(pimages) |->
                           [pimages[n] EXCEPT !.reflections = r[n]]]
    /\ pa' = [pa EXCEPT !.pc = "scale"]
    /\ UNCHANGED <<pa_args, pfull, not_partialator_vars>>

NextPartialator ==
    \/ PaParse
    \/ PaSetup
    \/ PaLoad
    \/ PaScale
    \/ PaSelect
    \/ PaLoop
    \/ PaRefine

SpecPartialator == InitPartialator /\ [][NextPartialator]_vars

(* ======================================================================= *)
(* indexamajig: main                                                       *)
(* ======================================================================= *)

(* IndexingMethod: the method in the low byte, flags above it *)
INDEXING_PINKINDEXER == 11
INDEXING_METHOD_MASK == 255

DefaultTimeout == 240        \* int timeout = 240
PinkIndexerTimeout == 3000   \* timeout = 3000

(* what setup_indexing can prepare: a list of methods, each with flags *)
PreparedLists ==
    LET INDEXING_MOSFLM == 2
        INDEXING_XGANDALF == 10
        INDEXING_USE_LATTICE_TYPE == 2048
        INDEXING_USE_CELL_PARAMETERS == 4096
        IndexingMethods ==
           {INDEXING_MOSFLM, INDEXING_XGANDALF, INDEXING_PINKINDEXER}
        IndexingFlagSets ==
           {0, INDEXING_USE_LATTICE_TYPE, INDEXING_USE_CELL_PARAMETERS,
            INDEXING_USE_LATTICE_TYPE + INDEXING_USE_CELL_PARAMETERS}
    IN UNION { [1 .. n -> [method : IndexingMethods,
                           flags : IndexingFlagSets]] :
                 n \in 1 .. MaxMethods }

(* indexing_methods(ipriv, &n): the prepared methods as IndexingMethod values *)
indexing_methods(prepared) ==
    [k \in 1 .. Len(prepared) |-> prepared[k].method + prepared[k].flags]

(* an angle in radians is a multiple of pi: n/d * pi^pi *)
Tol(n, d, pi) == [n |-> FloatDiv(n, d).n, d |-> FloatDiv(n, d).d, pi |-> pi]

(* args.iargs.tols as main sets it before the command line is read *)
DefaultTols ==
    << Tol(5, 100, 0), Tol(5, 100, 0), Tol(5, 100, 0),
       Tol(15, 10, 0), Tol(15, 10, 0), Tol(15, 10, 0) >>

(* parse_arg, case 401: arg is what sscanf reads of the option's argument, *)
(* six numbers or, in the old format, four; tols is args->iargs.tols       *)
parse_tolerance(arg, tols) ==
    LET deg2rad(x) == Tol(x.n, x.d * 180, x.pi + 1)
        percent(x) == Tol(x.n, x.d * 100, x.pi)
        read == IF Len(arg) = 6 THEN arg
                ELSE <<arg[1], arg[2], arg[3], arg[4], arg[4], arg[4]>>
    IN IF Len(arg) = 0 THEN tols
       ELSE << percent(read[1]), percent(read[2]), percent(read[3]),
               deg2rad(read[4]), deg2rad(read[5]), deg2rad(read[6]) >>

(* what argp_parse leaves in args: "help" stands for -h and --version,     *)
(* which end the program inside parse_arg with status 0; tolerance is the  *)
(* argument of --tolerance, <<>> without the option                        *)
IaCommandLines ==
    { a \in [ parse : {"ok", "einval", "help"},
              filename : {"NULL", "-", "file"},
              geom_filename : {"NULL", "file"},
              outfile : {"NULL", "file"},
              n_proc : 0 .. 1,
              cellfile : {"NULL", "file"},
              spectrum_fn : {"NULL", "file"},
              indm_str : {"NULL", "none", "methods"},
              zmq : {0, 1},
              tolerance : { <<>>,
                            << Tol(5, 1, 0), Tol(5, 1, 0), Tol(5, 1, 0),
                               Tol(15, 10, 0), Tol(15, 10, 0),
                               Tol(15, 10, 0) >>,
                            << Tol(5, 1, 0), Tol(5, 1, 0), Tol(5, 1, 0),
                               Tol(15, 10, 0) >> } ] :
         a.parse # "ok" =>
            /\ a.filename = "NULL" /\ a.geom_filename = "NULL"
            /\ a.outfile = "NULL" /\ a.n_proc = 1 /\ a.cellfile = "NULL"
            /\ a.spectrum_fn = "NULL" /\ a.indm_str = "NULL" /\ a.zmq = 0
            /\ a.tolerance = <<>> }

(* main is entered: its locals before argp_parse *)
InitIndexamajig ==
    /\ ia_args \in IaCommandLines
    /\ ia = [pc |-> "parse", fh |-> "unset", det |-> "unset",
             cell |-> "unset", spectrum |-> "unset", tmpdir |-> "unset",
             chdir_tmp |-> "unset", indm_str |-> "unset", ipriv |-> "unset",
             prepared |-> <<>>, methods |-> <<>>, i |-> 0,
             timeout |-> DefaultTimeout, chdir_back |-> "unset",
             st |-> "unset", zmq_address |-> "unset",
             sandbox |-> "not called", sandbox_timeout |-> 0, r |-> 0,
             status |-> -1, tols |-> DefaultTols, setup_tols |-> <<>>]
    /\ IdleAllBut("indexamajig")

IaReturn(frame, code) == [frame EXCEPT !.pc = "exit", !.status = code]

(* the command line: argp_parse, then the options that must be there *)
IaArguments ==
    /\ \/ (* if ( argp_parse(&argp, argc, argv, 0, NULL, &args) ) return 1 *)
          /\ ia.pc = "parse"
          /\ ia' = IF ia_args.parse = "help" THEN IaReturn(ia, 0)
                   ELSE IF ia_args.parse = "einval" THEN IaReturn(ia, 1)
                   ELSE [ia EXCEPT !.pc = "minimal",
                                   !.indm_str = ia_args.indm_str,
                                   !.tols = parse_tolerance(
                                               ia_args.tolerance, @)]
       \/ (* "Check for minimal information" *)
          /\ ia.pc = "minimal"
          /\ ia' = IF ia_args.filename = "NULL" THEN IaReturn(ia, 1)
                   ELSE IF ia_args.geom_filename = "NULL" THEN IaReturn(ia, 1)
                   ELSE IF ia_args.outfile = "NULL" THEN IaReturn(ia, 1)
                   ELSE [ia EXCEPT !.pc = "open"]
    /\ UNCHANGED <<ia_args, not_indexamajig_vars>>

(* "Open input": stdin for "-", else fopen, which may fail *)
IaOpenInput ==
    /\ ia.pc = "open"
    /\ \E fh \in IF ia_args.filename = "-" THEN {"stdin"} ELSE {"open", "NULL"} :
          ia' = IF fh = "NULL" THEN IaReturn([ia EXCEPT !.fh = fh], 1)
                ELSE [ia EXCEPT !.fh = fh, !.pc = "n_proc"]
    /\ UNCHANGED <<ia_args, not_indexamajig_vars>>

(* the check of the number of processes left out *)
IaCheckProc_NoCheck ==
    /\ ia.pc = "n_proc"
    /\ ia' = [ia EXCEPT !.pc = "geometry"]
    /\ UNCHANGED <<ia_args, not_indexamajig_vars>>

(* "Check number of processes" *)
IaCheckProc ==
    /\ ia.pc = "n_proc"
    /\ ia' = IF ia_args.n_proc = 0 THEN IaReturn(ia, 1)
             ELSE [ia EXCEPT !.pc = "geometry"]
    /\ UNCHANGED <<ia_args, not_indexamajig_vars>>

(* the files the options name are loaded, one after the other *)
IaLoad ==
    /\ \/ (* "Load detector geometry" *)
          /\ ia.pc = "geometry"
          /\ \E det \in {"loaded", "NULL"} :
                ia' = IF det = "NULL" THEN IaReturn([ia EXCEPT !.det = det], 1)
                      ELSE [ia EXCEPT !.det = det, !.pc = "cell"]
       \/ (* "Load unit cell (if given)" *)
          /\ ia.pc = "cell"
          /\ \E uc \in IF ia_args.cellfile = "NULL" THEN {"none"}
                                                    ELSE {"loaded", "NULL"} :
                ia' = IF uc = "NULL" THEN IaReturn([ia EXCEPT !.cell = uc], 1)
                      ELSE [ia EXCEPT !.cell = uc, !.pc = "spectrum"]
       \/ (* "Load spectrum from file if given" *)
          /\ ia.pc = "spectrum"
          /\ \E sp \in IF ia_args.spectrum_fn = "NULL" THEN {"none"}
                                                       ELSE {"loaded", "NULL"} :
                ia' = IF sp = "NULL"
                      THEN IaReturn([ia EXCEPT !.spectrum = sp], 1)
                      ELSE [ia EXCEPT !.spectrum = sp, !.pc = "tmpdir"]
    /\ UNCHANGED <<ia_args, not_indexamajig_vars>>

(* the temporary folder: made and entered, and left again later *)
IaDirectories ==
    /\ \/ (* tmpdir = create_tempdir(args.temp_location) *)
          /\ ia.pc = "tmpdir"
          /\ \E t \in {"made", "NULL"} :
                ia' = IF t = "NULL" THEN IaReturn([ia EXCEPT !.tmpdir = t], 1)
                      ELSE [ia EXCEPT !.tmpdir = t, !.pc = "chdir"]
       \/ (* r = chdir(tmpdir) *)
          /\ ia.pc = "chdir"
          /\ \E c \in {"ok", "failed"} :
                ia' = IF c = "failed"
                      THEN IaReturn([ia EXCEPT !.chdir_tmp = c], 1)
                      ELSE [ia EXCEPT !.chdir_tmp = c, !.pc = "detect"]
       \/ (* r = chdir(rn) *)
          /\ ia.pc = "chdir_back"
          /\ \E c \in {"ok", "failed"} :
                ia' = IF c = "failed"
                      THEN IaReturn([ia EXCEPT !.chdir_back = c], 1)
                      ELSE [ia EXCEPT !.chdir_back = c, !.pc = "stream"]
    /\ UNCHANGED <<ia_args, not_indexamajig_vars>>

(* the indexing methods: detected if none was asked for, then prepared *)
IaSetupIndexing ==
    /\ \/ (* "Auto-detect indexing methods if 'requested'" *)
          /\ ia.pc = "detect"
          /\ \E found \in IF ia.indm_str = "NULL" THEN {"NULL", "methods"}
                                                  ELSE {ia.indm_str} :
                ia' = [ia EXCEPT !.indm_str = found, !.pc = "prepare"]
       \/ (* "Prepare the indexing system": setup_indexing, indexing_methods *)
          /\ ia.pc = "prepare"
          /\ IF ia.indm_str = "NULL"
             THEN ia' = IaReturn(ia, 1)
             ELSE IF ia.indm_str = "none"
                  THEN ia' = [ia EXCEPT !.ipriv = "NULL", !.pc = "chdir_back"]
                  ELSE \/ ia' = IaReturn([ia EXCEPT !.ipriv = "failed",
                                                     !.setup_tols = ia.tols],
                                          1)
                       \/ \E p \in PreparedLists :
                             ia' = [ia EXCEPT !.ipriv = "set up", !.prepared = p,
                                              !.setup_tols = ia.tols,
                                              !.methods = indexing_methods(p),
                                              !.i = 0, !.pc = "methods"]
    /\ UNCHANGED <<ia_args, not_indexamajig_vars>>

(* the comparison made on the whole value, flags included *)
IsPinkIndexer_NoMask(m) == m = INDEXING_PINKINDEXER

(* (methods[i] & INDEXING_METHOD_MASK) == INDEXING_PINKINDEXER, the mask   *)
(* being all ones below 2^8                                                *)
IsPinkIndexer(m) == m % (INDEXING_METHOD_MASK + 1) = INDEXING_PINKINDEXER

(* for ( i=0; i<n; i++ ): one turn of the loop, with its break *)
IaMethods ==
    /\ ia.pc = "methods"
    /\ IF ia.i < Len(ia.methods)
       THEN IF IsPinkIndexer(ia.methods[ia.i + 1])
            THEN ia' = [ia EXCEPT !.timeout = PinkIndexerTimeout,
                                  !.pc = "chdir_back"]
            ELSE ia' = [ia EXCEPT !.i = @ + 1]
       ELSE ia' = [ia EXCEPT !.pc = "chdir_back"]
    /\ UNCHANGED <<ia_args, not_indexamajig_vars>>

(* the output stream and, for ZMQ, the address of the server *)
IaOutput ==
    /\ \/ (* "Open output stream" *)
          /\ ia.pc = "stream"
          /\ \E st \in {"open", "NULL"} :
                ia' = IF st = "NULL" THEN IaReturn([ia EXCEPT !.st = st], 1)
                      ELSE [ia EXCEPT !.st = st, !.pc = "zmq"]
       \/ (* if ( args.zmq ): the address is the first line of the input *)
          /\ ia.pc = "zmq"
          /\ \E z \in IF ia_args.zmq = 0 THEN {"none"} ELSE {"read", "NULL"} :
                ia' = IF z = "NULL"
                      THEN IaReturn([ia EXCEPT !.zmq_address = z], 1)
                      ELSE [ia EXCEPT !.zmq_address = z, !.pc = "sandbox"]
    /\ UNCHANGED <<ia_args, not_indexamajig_vars>>

(* r = create_sandbox(..., timeout, ...); ...; return r *)
IaSandbox ==
    /\ ia.pc = "sandbox"
    /\ \E r \in 0 .. 1 :
          ia' = IaReturn([ia EXCEPT !.sandbox = "called",
                                    !.sandbox_timeout = ia.timeout,
                                    !.r = r], r)
    /\ UNCHANGED <<ia_args, not_indexamajig_vars>>

NextIndexamajig ==
    \/ IaArguments
    \/ IaOpenInput
    \/ IaCheckProc
    \/ IaLoad
    \/ IaDirectories
    \/ IaSetupIndexing
    \/ IaMethods
    \/ IaOutput
    \/ IaSandbox

SpecIndexamajig == InitIndexamajig /\ [][NextIndexamajig]_vars

(* ======================================================================= *)
(* peaks: search_peaks, integrate_peak, is_hot_pixel, cull_peaks           *)
(* ======================================================================= *)

PEAK_WINDOW_SIZE == 10
INTEGRATION_RADIUS == 10

IsNaN(a) == a.d = 0 /\ a.n = 0

(* a < b as the machine compares floats: false with a NaN *)
FloatLess(a, b) == ~IsNaN(a) /\ ~IsNaN(b) /\ a.n * b.d < b.n * a.d

(* the distance of (ax, ay) from (bx, by) is below lim; false with a NaN   *)
CloserThan(ax, ay, bx, by, lim) ==
    /\ ~IsNaN(ax) /\ ~IsNaN(ay) /\ ~IsNaN(bx) /\ ~IsNaN(by)
    /\ LET dxn == ax.n * bx.d - bx.n * ax.d
           dxd == ax.d * bx.d
           dyn == ay.n * by.d - by.n * ay.d
           dyd == ay.d * by.d
       IN dxn * dxn * dyd * dyd + dyn * dyn * dxd * dxd
             < lim * lim * dxd * dxd * dyd * dyd

biggest(a, b) == IF a > b THEN a ELSE b
smallest(a, b) == IF a < b THEN a ELSE b

(* ---- the panels searched: a background of zeros with spots on it ------ *)
(* a spot is a few pixels, given as <<dx, dy, value>> from its corner;     *)
(* SpotPixels(S) are the pixels the spots of S set, as <<x, y, value>>     *)
Panels ==
    LET SpotShapes ==
           [ hot     |-> { <<0, 1, 1000>> },
             pair    |-> { <<0, 1, 1000>>, <<1, 1, 1000>> },
             tail    |-> { <<0, 1, 1000>>, <<1, 1, 1000>>, <<3, 1, -1500>> },
             checker |-> { <<0, 0, -1000>>, <<0, 1, 1000>>,
                           <<1, 0, 1000>>, <<1, 1, -1000>> } ]
        SpotColumns == {2, 8, MaxWidth - 4}
        SpotSets ==
           { S \in SUBSET (SpotColumns \X DOMAIN SpotShapes) :
                /\ Cardinality(S) <= MaxSpots
                /\ \A s, t \in S : s[1] = t[1] => s = t }
        SpotPixels(S) ==
           UNION { { <<s[1] + e[1], e[2], e[3]>> : e \in SpotShapes[s[2]] } :
                      s \in S }
        PanelData(S, width, height) ==
           LET lit == SpotPixels(S)
           IN [k \in 0 .. (width * height - 1) |->
                 LET here == { t \in lit :
                                  t[1] = k % width /\ t[2] = k \div width }
                 IN IF here = {} THEN 0 ELSE (CHOOSE t \in here : TRUE)[3]]
    IN { [width |-> MaxWidth, height |-> MaxHeight,
          data |-> PanelData(S, MaxWidth, MaxHeight)] : S \in SpotSets }

(* ---- peaks.c ----------------------------------------------------------- *)

in_streak(x, y) ==
    \/ y > 512 /\ y < 600 /\ Abs(x - 489) < 15
    \/ y > 600 /\ Abs(x - 480) < 25

(* is_hot_pixel: not at the border, and no neighbour reaches half of it *)
is_hot_pixel(image, x, y) ==
    LET w == image.width
        v == image.data[x + w * y] \div 2
    IN IF x + 1 >= image.width \/ x - 1 < 0
          \/ y + 1 >= image.height \/ y - 1 < 0
       THEN FALSE
       ELSE \A dx \in -1 .. 1 : \A dy \in -1 .. 1 :
               (dx = 0 /\ dy = 0) \/ image.data[(x + dx) + w * (y + dy)] < v

(* cull_peaks: the loop over i.  image_remove_feature marks the entry and *)
(* image_get_feature gives NULL for a marked one; ncol counts the other    *)
(* peaks of the column: if ( ncol <= 3 ) continue                          *)
cull_peaks(features) ==
    LET SameColumn(fl, i) ==
           { j \in 1 .. Len(fl) :
                /\ fl[j].valid
                /\ ~IsNaN(fl[i].x) /\ ~IsNaN(fl[j].x) /\ fl[i].x = fl[j].x }
        RECURSIVE cull_from(_, _)
        cull_from(fl, i) ==
           IF i > Len(fl) THEN fl
           ELSE IF ~fl[i].valid THEN cull_from(fl, i + 1)
           ELSE IF Cardinality(SameColumn(fl, i) \ {i}) <= 3
                THEN cull_from(fl, i + 1)
           ELSE cull_from([j \in 1 .. Len(fl) |->
                             IF j \in SameColumn(fl, i)
                             THEN [fl[j] EXCEPT !.valid = FALSE] ELSE fl[j]],
                          i + 1)
    IN cull_from(features, 1)

(* the sum of the ints w[p] over the p in P *)
SumOver(P, w) ==
    BagCardinality([p \in { t \in P : w[t] > 0 } |-> w[p]])
       - BagCardinality([p \in { t \in P : w[t] < 0 } |-> 0 - w[p]])

(* integrate_peak: the pixels of the disk that lie on the panel, and the   *)
(* sums total, xct, yct over them                                          *)
integrate_peak(image, xp, yp) ==
    LET R == INTEGRATION_RADIUS
        P == { p \in ((0 - R) .. (R - 1)) \X ((0 - R) .. (R - 1)) :
                  /\ p[1] * p[1] + p[2] * p[2] <= R * R
                  /\ ~(p[1] + xp >= image.width \/ p[1] + xp < 0)
                  /\ ~(p[2] + yp >= image.height \/ p[2] + yp < 0) }
        val == [p \in P |->
                  image.data[(p[1] + xp) + image.width * (p[2] + yp)]]
        total == SumOver(P, val)
        xct == SumOver(P, [p \in P |-> val[p] * (xp + p[1])])
        yct == SumOver(P, [p \in P |-> val[p] * (yp + p[2])])
    IN [xc |-> FloatDiv(xct, total), yc |-> FloatDiv(yct, total),
        intensity |-> total]

(* distance(mask_x, mask_y, x, y) > 50.0 *)
TooFar(mx, my, x, y) == (mx - x) * (mx - x) + (my - y) * (my - y) > 50 * 50

(* the climb to the local maximum: the two for loops, whose bounds follow  *)
(* mask_x and mask_y as these move, inside the do ... while                *)
RECURSIVE Climb(_, _, _, _, _)
Climb(image, mx, my, x, y) ==
    LET RECURSIVE ClimbRow(_, _, _)
        ClimbRow(st, sy, sx) ==
           IF sx < smallest(st.mask_x + PEAK_WINDOW_SIZE \div 2,
                            image.width - 1)
           THEN ClimbRow(IF image.data[sx + image.width * sy] > st.max
                         THEN [max |-> image.data[sx + image.width * sy],
                               mask_x |-> sx, mask_y |-> sy,
                               did_something |-> 1]
                         ELSE st,
                         sy, sx + 1)
           ELSE st
        RECURSIVE ClimbRows(_, _)
        ClimbRows(st, sy) ==
           IF sy < smallest(st.mask_y + PEAK_WINDOW_SIZE \div 2,
                            image.height - 1)
           THEN ClimbRows(ClimbRow(st, sy,
                             biggest(st.mask_x - PEAK_WINDOW_SIZE \div 2, 0)),
                          sy + 1)
           ELSE st
        st0 == [max |-> image.data[mx + image.width * my],
                mask_x |-> mx, mask_y |-> my, did_something |-> 0]
        st1 == ClimbRows(st0, biggest(my - PEAK_WINDOW_SIZE \div 2, 0))
    IN IF TooFar(st1.mask_x, st1.mask_y, x, y) THEN st1
       ELSE IF st1.did_something # 0
            THEN Climb(image, st1.mask_x, st1.mask_y, x, y)
            ELSE st1

(* image_feature_closest gives the distance d of the nearest feature,      *)
(* infinite for an empty list: this is d < lim                             *)
image_feature_closest_within(fl, fx, fy, lim) ==
    \E k \in 1 .. Len(fl) :
       fl[k].valid /\ CloserThan(fl[k].x, fl[k].y, fx, fy, lim)

image_add_feature(fl, fx, fy, intensity) ==
    Append(fl, [x |-> fx, y |-> fy, intensity |-> intensity, valid |-> TRUE])

(* what one turn of search_peaks' double loop does with pixel (x, y) *)
SearchOutcome(image, fl, x, y) ==
    LET data == image.data
        width == image.width
        here == data[x + width * y]
        dx1 == here - data[(x + 1) + width * y]
        dx2 == data[(x - 1) + width * y] - here
        dy1 == here - data[(x + 1) + width * (y + 1)]
        dy2 == data[x + width * (y - 1)] - here
        grad2 == dx1 * dx1 + dx2 * dx2 + dy1 * dy1 + dy2 * dy2
    IN IF here < 800 THEN [what |-> "threshold"]
       ELSE IF in_streak(x, y) THEN [what |-> "streak"]
       ELSE IF grad2 < 2 * 100000 THEN [what |-> "gradient"]
       ELSE LET m == Climb(image, x, y, x, y)
            IN IF TooFar(m.mask_x, m.mask_y, x, y) THEN [what |-> "distance"]
               ELSE IF is_hot_pixel(image, m.mask_x, m.mask_y)
                    THEN [what |-> "hot"]
               ELSE LET c == integrate_peak(image, m.mask_x, m.mask_y)
                    IN IF \/ FloatLess(c.xc, FromInt(0))
                          \/ FloatLess(FromInt(image.width), c.xc)
                          \/ FloatLess(c.yc, FromInt(0))
                          \/ FloatLess(FromInt(image.height), c.yc)
                       THEN [what |-> "frame"]
                       ELSE IF image_feature_closest_within(fl, c.xc, c.yc, 15)
                            THEN [what |-> "proximity"]
                            ELSE [what |-> "accepted", fx |-> c.xc,
                                  fy |-> c.yc, intensity |-> c.intensity]

PeakFrame0 ==
    [pc |-> "search", x |-> 1, y |-> 1, last |-> "none", nacc |-> 0,
     nrej_dis |-> 0, nrej_hot |-> 0, nrej_pro |-> 0, nrej_fra |-> 0]

(* search_peaks is entered with a panel and a new, empty feature list *)
InitPeaks ==
    /\ pk_image \in Panels
    /\ pk_features = <<>>
    /\ pk = PeakFrame0
    /\ IdleAllBut("peaks")

(* one turn of for ( x=1; x<width-1; x++ ) for ( y=1; y<height-1; y++ );   *)
(* past the last pixel the search goes on to cull_peaks                    *)
SearchPixel ==
    /\ pk.pc = "search"
    /\ IF pk.x < pk_image.width - 1
       THEN IF pk.y < pk_image.height - 1
            THEN LET o == SearchOutcome(pk_image, pk_features, pk.x, pk.y)
                 IN /\ pk_features' =
                          IF o.what = "accepted"
                          THEN image_add_feature(pk_features, o.fx, o.fy,
                                                 o.intensity)
                          ELSE pk_features
                    /\ pk' = [pk EXCEPT
                          !.y = @ + 1,
                          !.last = o.what,
                          !.nacc = IF o.what = "accepted" THEN @ + 1 ELSE @,
                          !.nrej_dis = IF o.what = "distance" THEN @ + 1 ELSE @,
                          !.nrej_hot = IF o.what = "hot" THEN @ + 1 ELSE @,
                          !.nrej_pro = IF o.what = "proximity" THEN @ + 1 ELSE @,
                          !.nrej_fra = IF o.what = "frame" THEN @ + 1 ELSE @]
            ELSE /\ pk' = [pk EXCEPT !.x = @ + 1, !.y = 1]
                 /\ pk_features' = pk_features
       ELSE /\ pk' = [pk EXCEPT !.pc = "cull"]
            /\ pk_features' = pk_features
    /\ UNCHANGED <<pk_image, not_peak_vars>>

(* cull_peaks(image), the last statement of search_peaks *)
CullPeaks ==
    /\ pk.pc = "cull"
    /\ pk_features' = cull_peaks(pk_features)
    /\ pk' = [pk EXCEPT !.pc = "done"]
    /\ UNCHANGED <<pk_image, not_peak_vars>>

NextPeaks ==
    \/ SearchPixel
    \/ CullPeaks

SpecPeaks == InitPeaks /\ [][NextPeaks]_vars

(* cull_peaks on the feature list of a larger panel: the peaks lie in a    *)
(* few columns, 15 pixels or more from one another                         *)
FeatureLists ==
    UNION { { [k \in 1 .. n |->
                 [x |-> FromInt(col[k]), y |-> FromInt(20 * k),
                  intensity |-> 2000, valid |-> TRUE]] :
              col \in [1 .. n -> {100, 200}] } : n \in 0 .. MaxPeaks }

InitCull ==
    /\ pk_image = [width |-> 0, height |-> 0, data |-> <<>>]
    /\ pk_features \in FeatureLists
    /\ pk = [PeakFrame0 EXCEPT !.pc = "cull", !.nacc = Len(pk_features)]
    /\ IdleAllBut("peaks")

SpecCull == InitCull /\ [][CullPeaks]_vars

(* ======================================================================= *)
(* cell: UnitCell, its setters and getters                                 *)
(* ======================================================================= *)

(* the axis vectors given to the setters *)
AxisVectors == { <<2, 0, 0>>, <<0, 1, 0>>, <<1, 0, 1>> }

(* cell_new: a = b = c = 1.0, all angles M_PI_2; the Cartesian and the     *)
(* reciprocal fields stay as malloc left them (<<>>: never written)        *)
NewCell ==
    [rep |-> "CELL_REP_CRYST", a |-> 1, b |-> 1, c |-> 1,
     alpha |-> "M_PI_2", beta |-> "M_PI_2", gamma |-> "M_PI_2",
     cart |-> <<<<>>, <<>>, <<>>>>,
     recip |-> <<<<>>, <<>>, <<>>>>]

(* no cell: cell_new returned NULL *)
NoCell == [rep |-> "NULL"]

(* reading a stored vector as doubles; one never written holds whatever    *)
(* was there                                                               *)
Stored(v) ==
    { <<FromInt(w[1]), FromInt(w[2]), FromInt(w[3])>> :
         w \in IF v = <<>> THEN AxisVectors ELSE {v} }

(* cell_invert: the transposed inverse of the matrix with columns a, b, c, *)
(* that is (b x c, c x a, a x b) / det.  It returns 1 and writes nothing   *)
(* when an allocation fails or the LU routines report the matrix singular. *)
cell_invert(a, b, c, alloc_ok) ==
    LET add(x, y) == FloatDiv(x.n * y.d + y.n * x.d, x.d * y.d)
        sub(x, y) == FloatDiv(x.n * y.d - y.n * x.d, x.d * y.d)
        mul(x, y) == FloatDiv(x.n * y.n, x.d * y.d)
        quot(x, y) == FloatDiv(x.n * y.d, x.d * y.n)
        cross(u, v) == << sub(mul(u[2], v[3]), mul(u[3], v[2])),
                          sub(mul(u[3], v[1]), mul(u[1], v[3])),
                          sub(mul(u[1], v[2]), mul(u[2], v[1])) >>
        dot(u, v) == add(add(mul(u[1], v[1]), mul(u[2], v[2])),
                         mul(u[3], v[3]))
        over(u, s) == <<quot(u[1], s), quot(u[2], s), quot(u[3], s)>>
        det == dot(a, cross(b, c))
    IN IF ~alloc_ok \/ det.n = 0
       THEN [r |-> 1, written |-> FALSE, out |-> <<>>]
       ELSE [r |-> 0, written |-> TRUE,
             out |-> << over(cross(b, c), det), over(cross(c, a), det),
                        over(cross(a, b), det) >>]

(* cell_crystallographic_to_cartesian at right angles (cos 0, sin 1):      *)
(* cstar = (a*b*sin(gamma))/V and cz = 1/cstar                             *)
cell_crystallographic_to_cartesian(cl) ==
    LET V == cl.a * cl.b * cl.c
        cstar == FloatDiv(cl.a * cl.b, V)
    IN [r |-> 0, written |-> TRUE,
        out |-> << <<FromInt(cl.a), FromInt(0), FromInt(0)>>,
                   <<FromInt(0), FromInt(cl.b), FromInt(0)>>,
                   <<FromInt(0), FromInt(0), FloatDiv(cstar.d, cstar.n)>> >>]

(* a call and what came back: the return value (or "none"), whether the    *)
(* outputs were written, and the outputs                                   *)
Called(fn, r, written, out) ==
    [fn |-> fn, r |-> r, written |-> written, out |-> out]

InitCell ==
    /\ cell = NoCell
    /\ cell_out = Called("none", "none", FALSE, <<>>)
    /\ IdleAllBut("cell")

CellNew ==
    /\ cell' = NewCell
    /\ cell_out' = Called("cell_new", "none", FALSE, <<>>)
    /\ UNCHANGED not_cell_vars

CellSetParameters ==
    /\ \E a, b \in 1 .. MaxAxis, c \in 0 .. MaxAxis :
          cell' = IF cell = NoCell THEN cell
                  ELSE [cell EXCEPT !.a = a, !.b = b, !.c = c,
                                    !.alpha = "M_PI_2", !.beta = "M_PI_2",
                                    !.gamma = "M_PI_2",
                                    !.rep = "CELL_REP_CRYST"]
    /\ cell_out' = Called("cell_set_parameters", "none", FALSE, <<>>)
    /\ UNCHANGED not_cell_vars

(* cell_new, then cell_set_parameters *)
CellNewFromParameters ==
    /\ \E a, b \in 1 .. MaxAxis, c \in 0 .. MaxAxis :
          cell' = [NewCell EXCEPT !.a = a, !.b = b, !.c = c]
    /\ cell_out' = Called("cell_new_from_parameters", "none", FALSE, <<>>)
    /\ UNCHANGED not_cell_vars

(* match_cell builds its result from three candidate vectors; the first    *)
(* of them varies here                                                     *)
CellNewFromAxes ==
    /\ \E as \in AxisVectors :
          cell' = [NewCell EXCEPT !.recip = <<as, <<0, 1, 0>>, <<1, 0, 1>>>>,
                                  !.rep = "CELL_REP_RECIP"]
    /\ cell_out' = Called("cell_new_from_axes", "none", FALSE, <<>>)
    /\ UNCHANGED not_cell_vars

CellSetCartesian ==
    /\ \E a, b, c \in AxisVectors :
          cell' = IF cell = NoCell THEN cell
                  ELSE [cell EXCEPT !.cart = <<a, b, c>>,
                                    !.rep = "CELL_REP_CART"]
    /\ cell_out' = Called("cell_set_cartesian", "none", FALSE, <<>>)
    /\ UNCHANGED not_cell_vars

(* one axis is stored and the representation tag is left as it was *)
CellSetCartesianAxis_KeepRep ==
    /\ \E k \in 1 .. 3, v \in AxisVectors :
          cell' = IF cell = NoCell THEN cell ELSE [cell EXCEPT !.cart[k] = v]
    /\ cell_out' = Called("cell_set_cartesian_abc", "none", FALSE, <<>>)
    /\ UNCHANGED not_cell_vars

(* cell_set_cartesian_a, cell_set_cartesian_b, cell_set_cartesian_c *)
CellSetCartesianAxis ==
    /\ \E k \in 1 .. 3, v \in AxisVectors :
          cell' = IF cell = NoCell THEN cell
                  ELSE [cell EXCEPT !.cart[k] = v, !.rep = "CELL_REP_CART"]
    /\ cell_out' = Called("cell_set_cartesian_abc", "none", FALSE, <<>>)
    /\ UNCHANGED not_cell_vars

(* the lengths and angles come from modulus and angle_between applied to   *)
(* the axes, which are kept as the output; in CELL_REP_RECIP the axes are  *)
(* the locals cell_invert was to fill, read whatever it returned           *)
CellGetParameters ==
    /\ cell_out' \in
          IF cell = NoCell
          THEN {Called("cell_get_parameters", 1, FALSE, <<>>)}
          ELSE IF cell.rep = "CELL_REP_CRYST"
          THEN {Called("cell_get_parameters", 0, TRUE,
                       [a |-> cell.a, b |-> cell.b, c |-> cell.c,
                        alpha |-> cell.alpha, beta |-> cell.beta,
                        gamma |-> cell.gamma])}
          ELSE IF cell.rep = "CELL_REP_CART"
          THEN {Called("cell_get_parameters", 0, TRUE, <<a, b, c>>) :
                   a \in Stored(cell.cart[1]), b \in Stored(cell.cart[2]),
                   c \in Stored(cell.cart[3])}
          ELSE {Called("cell_get_parameters", 0, t.written, t.out) :
                   t \in {cell_invert(a, b, c, alloc_ok) :
                            a \in Stored(cell.recip[1]),
                            b \in Stored(cell.recip[2]),
                            c \in Stored(cell.recip[3]),
                            alloc_ok \in BOOLEAN}}
    /\ UNCHANGED <<cell, not_cell_vars>>

CellGetCartesian ==
    /\ cell_out' \in
          IF cell = NoCell
          THEN {Called("cell_get_cartesian", 1, FALSE, <<>>)}
          ELSE IF cell.rep = "CELL_REP_CRYST"
          THEN {Called("cell_get_cartesian",
                       cell_crystallographic_to_cartesian(cell).r, TRUE,
                       cell_crystallographic_to_cartesian(cell).out)}
          ELSE IF cell.rep = "CELL_REP_CART"
          THEN {Called("cell_get_cartesian", 0, TRUE, <<a, b, c>>) :
                   a \in Stored(cell.cart[1]), b \in Stored(cell.cart[2]),
                   c \in Stored(cell.cart[3])}
          ELSE {Called("cell_get_cartesian", t.r, t.written, t.out) :
                   t \in {cell_invert(a, b, c, alloc_ok) :
                            a \in Stored(cell.recip[1]),
                            b \in Stored(cell.recip[2]),
                            c \in Stored(cell.recip[3]),
                            alloc_ok \in BOOLEAN}}
    /\ UNCHANGED <<cell, not_cell_vars>>

CellGetReciprocal ==
    /\ cell_out' \in
          IF cell = NoCell
          THEN {Called("cell_get_reciprocal", 1, FALSE, <<>>)}
          ELSE IF cell.rep = "CELL_REP_CRYST"
          THEN LET t == cell_crystallographic_to_cartesian(cell)
               IN IF t.r # 0
                  THEN {Called("cell_get_reciprocal", t.r, FALSE, <<>>)}
                  ELSE {Called("cell_get_reciprocal", u.r, u.written, u.out) :
                           u \in {cell_invert(t.out[1], t.out[2], t.out[3],
                                              alloc_ok) :
                                    alloc_ok \in BOOLEAN}}
          ELSE IF cell.rep = "CELL_REP_CART"
          THEN {Called("cell_get_reciprocal", 0, t.written, t.out) :
                   t \in {cell_invert(a, b, c, alloc_ok) :
                            a \in Stored(cell.cart[1]),
                            b \in Stored(cell.cart[2]),
                            c \in Stored(cell.cart[3]),
                            alloc_ok \in BOOLEAN}}
          ELSE {Called("cell_get_reciprocal", 0, TRUE, <<a, b, c>>) :
                   a \in Stored(cell.recip[1]), b \in Stored(cell.recip[2]),
                   c \in Stored(cell.recip[3])}
    /\ UNCHANGED <<cell, not_cell_vars>>

NextCell ==
    \/ CellNew
    \/ CellSetParameters
    \/ CellNewFromParameters
    \/ CellNewFromAxes
    \/ CellSetCartesian
    \/ CellSetCartesianAxis
    \/ CellGetParameters
    \/ CellGetCartesian
    \/ CellGetReciprocal

SpecCell == InitCell /\ [][NextCell]_vars

(* ======================================================================= *)
(* Prediction and partiality                                               *)
(* ======================================================================= *)

(* ---- one candidate node against the two Ewald spheres: e1 and e2 are    *)
(* its signed excitation errors against the spheres at k_low and k_high,   *)
(* rp the profile radius.  A node both of whose errors lie beyond rp on    *)
(* the same side is not excited and gives NULL; otherwise each error is    *)
(* clamped to +-rp, the flags record the clamping, and                      *)
(*    s = (r1 + r2) / (2 rp),  q = 1 - |s|,  p = 0.5 (3q - q^3)             *)
(* for |s| <= 1 and p = 0 otherwise.                                       *)
check_reflection(e1, e2, rp) ==
    LET clamp(e) == IF e < -rp THEN -rp ELSE IF e > rp THEN rp ELSE e
        r1 == clamp(e1)
        r2 == clamp(e2)
        sn == r1 + r2              \* s = sn / sd
        sd == 2 * rp
        qn == sd - Abs(sn)         \* q = qn / sd
        p == IF Abs(sn) <= sd
             THEN FloatDiv(3 * qn * sd * sd - qn * qn * qn, 2 * sd * sd * sd)
             ELSE FromInt(0)
    IN IF (e1 < -rp /\ e2 < -rp) \/ (e1 > rp /\ e2 > rp)
       THEN [rep |-> "NULL"]
       ELSE [rep |-> "refl", r1 |-> r1, r2 |-> r2, rp |-> rp, p |-> p,
             clamp_low |-> IF r1 # e1 THEN 1 ELSE 0,
             clamp_high |-> IF r2 # e2 THEN 1 ELSE 0]

(* ---- pr_gradient_check.c: scan_partialities ----------------------------- *)

(* the caller has set every valid[i] to 1; compare holds, for each         *)
(* reflection of the image, the reflection of the same indices that        *)
(* find_intersections predicted, or NULL                                   *)
InitPartiality ==
    /\ \E rp \in 1 .. MaxRp, n \in 1 .. MaxPredicted :
          pt_compare \in [1 .. n -> { check_reflection(e1, e2, rp) :
                                        e1, e2 \in -(rp + 1) .. (rp + 1) }]
    /\ pt = [pc |-> "loop", i |-> 0,
             valid |-> [k \in 1 .. Len(pt_compare) |-> 1],
             vals |-> [k \in 1 .. Len(pt_compare) |-> FromInt(0)],
             n_err |-> 0]
    /\ IdleAllBut("partiality")

(* one turn of the loop as it would be were the double-clamp test an or *)
ScanPartialities_EitherClamp ==
    /\ pt.pc = "loop"
    /\ IF pt.i >= Len(pt_compare)
       THEN pt' = [pt EXCEPT !.pc = "done"]
       ELSE LET refl2 == pt_compare[pt.i + 1]
                within_tolerance(a, b, percent) ==
                    Abs(b.n * a.d - a.n * b.d) * 100 * percent.d * a.d
                       < a.n * percent.n * a.d * b.d
            IN IF refl2.rep = "NULL"
               THEN pt' = [pt EXCEPT !.valid[pt.i + 1] = 0, !.i = @ + 1]
               ELSE pt' = [pt EXCEPT
                       !.n_err = IF /\ (refl2.clamp_low # 0
                                           \/ refl2.clamp_high # 0)
                                    /\ ~within_tolerance(refl2.p, FromInt(1),
                                                         FloatDiv(1, 1000))
                                 THEN @ + 1 ELSE @,
                       !.valid[pt.i + 1] = IF refl2.clamp_low # 0
                                              \/ refl2.clamp_high # 0
                                           THEN 0 ELSE @,
                       !.vals[pt.i + 1] = refl2.p,
                       !.i = @ + 1]
    /\ UNCHANGED <<pt_compare, not_partiality_vars>>

(* one turn of the loop over the reflections, or its end; n_err counts the *)
(* messages "double clamped but partiality not close to 1.0"               *)
ScanPartialities ==
    /\ pt.pc = "loop"
    /\ IF pt.i >= Len(pt_compare)
       THEN pt' = [pt EXCEPT !.pc = "done"]
       ELSE LET refl2 == pt_compare[pt.i + 1]
                (* |b - a| < a * percent / 100, as cell.c has it *)
                within_tolerance(a, b, percent) ==
                    Abs(b.n * a.d - a.n * b.d) * 100 * percent.d * a.d
                       < a.n * percent.n * a.d * b.d
            IN IF refl2.rep = "NULL"
               THEN pt' = [pt EXCEPT !.valid[pt.i + 1] = 0, !.i = @ + 1]
               ELSE pt' = [pt EXCEPT
                       !.n_err = IF /\ refl2.clamp_low # 0
                                    /\ refl2.clamp_high # 0
                                    /\ ~within_tolerance(refl2.p, FromInt(1),
                                                         FloatDiv(1, 1000))
                                 THEN @ + 1 ELSE @,
                       !.valid[pt.i + 1] = IF refl2.clamp_low # 0
                                              /\ refl2.clamp_high # 0
                                           THEN 0 ELSE @,
                       !.vals[pt.i + 1] = refl2.p,
                       !.i = @ + 1]
    /\ UNCHANGED <<pt_compare, not_partiality_vars>>

SpecPartiality == InitPartiality /\ [][ScanPartialities]_vars


(* ======================================================================= *)
(* zmq.c: get_peaks_onda and obj_read                                      *)
(* ======================================================================= *)

(* the values a "peak_list" key can carry: three parallel arrays, fs, ss   *)
(* and intensity; the k-th peak lies in row 0 and has intensity k          *)
PeakLists ==
    UNION { { << fs, [k \in 1 .. n |-> 0], [k \in 1 .. n |-> k] >> :
                 fs \in [1 .. n -> 0 .. MaxPanels] } : n \in 0 .. MaxOndaPeaks }

(* the map received holds "peak_list", "corr_data" (of which the shape,    *)
(* [height, width], is kept) and other keys, any of them more than once.   *)
(* The detector has n panels of one pixel each, side by side along fs,     *)
(* the second one marked no_index; without geometry det is NULL (<<>>).    *)
InitZmq ==
    LET MapEntries ==
          { [key |-> "peak_list", val |-> v] : v \in PeakLists }
             \cup { [key |-> "corr_data", val |-> <<1, w>>] :
                       w \in 0 .. MaxPanels }
             \cup { [key |-> "timestamp", val |-> <<>>] }
        Detector(n) ==
          [k \in 1 .. n |-> [orig_min_fs |-> k - 1, orig_min_ss |-> 0,
                             w |-> 1, h |-> 1,
                             no_index |-> IF k = 2 THEN 1 ELSE 0]]
    IN /\ \E n \in 0 .. MaxEntries : zmq_obj \in [1 .. n -> MapEntries]
       /\ \E n \in 0 .. MaxPanels :
             zmq_image = [det |-> Detector(n), features |-> <<>>,
                          num_peaks |-> 0, dp |-> <<"unset">>,
                          bad |-> <<"unset">>, sat |-> <<"unset">>]
       /\ zmq = [pc |-> "ready", get_peaks_onda |-> -1,
                 obj_read |-> -1, messages |-> <<>>, allocated |-> {},
                 freed |-> {}]
       /\ IdleAllBut("zmq")

(* ---- get_peaks_onda: the whole call.  Coordinates are kept in half      *)
(* pixels.  The loop over the map keeps the value of the last entry whose  *)
(* key matches; with no such entry num_peaks and peak_list are read        *)
(* uninitialised: any value.  The caller has loaded the geometry.          *)
GetPeaksOnda ==
    /\ zmq.pc = "ready" /\ zmq.get_peaks_onda = -1
    /\ Len(zmq_image.det) > 0
    /\ \E half_pixel_shift \in {0, 1},
          peak_list \in
             LET hits == { e \in 1 .. Len(zmq_obj) :
                             zmq_obj[e].key = "peak_list" }
             IN IF hits = {} THEN PeakLists
                ELSE { zmq_obj[CHOOSE e \in hits :
                                  \A f \in hits : f <= e].val } :
          LET num_peaks == Len(peak_list[1])
              peak_offset == IF half_pixel_shift # 0 THEN 1 ELSE 0
              fs(k) == 2 * peak_list[1][k] + peak_offset
              ss(k) == 2 * peak_list[2][k] + peak_offset
              find_orig_panel(k) ==
                  { p \in 1 .. Len(zmq_image.det) :
                      LET pn == zmq_image.det[p]
                      IN /\ 2 * pn.orig_min_fs <= fs(k)
                         /\ fs(k) < 2 * (pn.orig_min_fs + pn.w)
                         /\ 2 * pn.orig_min_ss <= ss(k)
                         /\ ss(k) < 2 * (pn.orig_min_ss + pn.h) }
              kept(k) == /\ find_orig_panel(k) # {}
                         /\ \A p \in find_orig_panel(k) :
                               zmq_image.det[p].no_index = 0
              feature(k) ==
                  LET p == CHOOSE x \in find_orig_panel(k) : TRUE
                  IN [fs |-> fs(k) - 2 * zmq_image.det[p].orig_min_fs,
                      ss |-> ss(k) - 2 * zmq_image.det[p].orig_min_ss,
                      p |-> p, val |-> peak_list[3][k]]
              add[k \in 0 .. num_peaks] ==
                  IF k = 0 THEN <<>>
                  ELSE IF kept(k) THEN Append(add[k - 1], feature(k))
                       ELSE add[k - 1]
          IN zmq_image' = [zmq_image EXCEPT !.features = add[num_peaks],
                                            !.num_peaks = num_peaks]
    /\ zmq' = [zmq EXCEPT !.get_peaks_onda = 0]
    /\ UNCHANGED <<zmq_obj, not_zmq_vars>>

(* ---- obj_read: the whole call.  Every malloc can fail.  A buffer is     *)
(* named by its array and its panel, panel 0 for the top-level array.      *)
(* With no "corr_data" key the shape is read uninitialised: any value.     *)
(* The copy of the pixels and the beam parameters are left out.            *)
ObjRead ==
    /\ zmq.pc = "ready" /\ zmq.obj_read = -1
    /\ LET n_panels == Len(zmq_image.det)
           Arrays == {"dp", "bad", "sat"}
           hits == { e \in 1 .. Len(zmq_obj) : zmq_obj[e].key = "corr_data" }
       IN \E shape \in IF hits = {}
                       THEN { <<1, w>> : w \in 0 .. MaxPanels }
                       ELSE { zmq_obj[CHOOSE e \in hits :
                                         \A f \in hits : f <= e].val },
             malloc_ok \in [Arrays \X (0 .. n_panels) -> BOOLEAN] :
             LET data_height == shape[1]
                 data_width == shape[2]
                 outside(pi) ==
                     LET p == zmq_image.det[pi]
                     IN \/ p.orig_min_fs + p.w > data_width
                        \/ p.orig_min_ss + p.h > data_height
                 nomem(pi) == \E t \in Arrays : ~malloc_ok[t, pi]
                 failing == { pi \in 1 .. n_panels : nomem(pi) \/ outside(pi) }
                 last == IF failing = {} THEN n_panels
                         ELSE CHOOSE pi \in failing :
                                 \A o \in failing : pi <= o
                 buffer(t, pi) ==
                     IF pi > last THEN "unset"
                     ELSE IF ~malloc_ok[t, pi] THEN "NULL"
                     ELSE IF pi \in failing THEN "allocated" ELSE "filled"
                 buffers(t) ==
                     <<"array">> \o [pi \in 1 .. n_panels |-> buffer(t, pi)]
             IN IF n_panels = 0
                THEN /\ zmq' = [zmq EXCEPT
                          !.obj_read = 1,
                          !.messages = Append(@, "Geometry not available.")]
                     /\ UNCHANGED zmq_image
                ELSE IF nomem(0)
                THEN /\ zmq' = [zmq EXCEPT
                          !.obj_read = 1,
                          !.messages = Append(@,
                                  "Failed to allocate data arrays."),
                          !.allocated = { <<t, 0>> : t \in
                                          { u \in Arrays : malloc_ok[u, 0] } }]
                     /\ zmq_image' = [zmq_image EXCEPT
                          !.dp = <<IF malloc_ok["dp", 0] THEN "array" ELSE "NULL">>,
                          !.bad = <<IF malloc_ok["bad", 0] THEN "array" ELSE "NULL">>,
                          !.sat = <<IF malloc_ok["sat", 0] THEN "array" ELSE "NULL">>]
                ELSE /\ zmq' = [zmq EXCEPT
                          !.obj_read = IF failing = {} THEN 0 ELSE 1,
                          !.messages =
                              IF failing = {} THEN @
                              ELSE IF nomem(last)
                              THEN Append(@, "Failed to allocate panel")
                              ELSE Append(@, "Panel is outside range of "
                                             \o "data provided"),
                          !.allocated =
                              { <<t, 0>> : t \in Arrays } \cup
                              { b \in Arrays \X (1 .. last) : malloc_ok[b] }]
                     /\ zmq_image' = [zmq_image EXCEPT
                          !.dp = buffers("dp"),
                          !.bad = buffers("bad"),
                          !.sat = buffers("sat")]
    /\ UNCHANGED <<zmq_obj, not_zmq_vars>>

SpecZmq == InitZmq /\ [][GetPeaksOnda \/ ObjRead]_vars


(* ======================================================================= *)
(* peaks: the hill climb of search_peaks, one statement at a time          *)
(* ======================================================================= *)

(* the climb begins on a panel three rows high with a slope to climb: in   *)
(* the middle row a ramp of len1 pixels rising to the right from column 2, *)
(* then, if top is set, a higher pixel in the row above it, then a second  *)
(* ramp of len2 pixels.  (x, y) has passed the threshold, the streak and   *)
(* the gradient tests, and mask_x = x, mask_y = y.                         *)
InitClimb ==
    LET Slope(len1, top, len2) ==
           [k \in 0 .. (MaxClimbWidth * 3 - 1) |->
              LET c == k % MaxClimbWidth
                  r == k \div MaxClimbWidth
              IN IF r = 1 /\ c >= 2 /\ c < 2 + len1
                 THEN 1000 + 10 * (c - 2)
                 ELSE IF r = 0 /\ top = 1 /\ c = 2 + len1 + 1 THEN 5000
                 ELSE IF r = 1 /\ c >= 2 + len1 + 2 /\ c < 2 + len1 + 2 + len2
                 THEN 6000 + 10 * (c - len1 - 4)
                 ELSE 0]
    IN /\ \E len1 \in {1, 4, 12, MaxClimbWidth - 16}, top \in {0, 1},
             len2 \in {0, 3, 10} :
             pk_image = [width |-> MaxClimbWidth, height |-> 3,
                         data |-> Slope(len1, top, len2)]
       /\ pk_features = <<>>
       /\ \E x \in 1 .. (MaxClimbWidth - 2), y \in {1} :
             /\ SearchOutcome(pk_image, pk_features, x, y).what
                   \notin {"threshold", "streak", "gradient"}
             /\ pk = [pc |-> "climb", x |-> x, y |-> y, mask_x |-> x,
                      mask_y |-> y, max |-> 0, max0 |-> 0,
                      did_something |-> 0, sx |-> 0, sy |-> 0,
                      last |-> "none", nrej_dis |-> 0]
       /\ IdleAllBut("peaks")

(* the do ... while as it would be without the break *)
ClimbStep_NoBreak ==
    /\ \/ /\ pk.pc = "climb"
          /\ pk' = [pk EXCEPT
                !.max = pk_image.data[pk.mask_x + pk_image.width * pk.mask_y],
                !.max0 = pk_image.data[pk.mask_x + pk_image.width * pk.mask_y],
                !.did_something = 0,
                !.sy = biggest(pk.mask_y - PEAK_WINDOW_SIZE \div 2, 0),
                !.pc = "rows"]
       \/ /\ pk.pc = "rows"
          /\ pk' = IF pk.sy < smallest(pk.mask_y + PEAK_WINDOW_SIZE \div 2,
                                       pk_image.height - 1)
                   THEN [pk EXCEPT
                           !.sx = biggest(pk.mask_x - PEAK_WINDOW_SIZE \div 2,
                                          0),
                           !.pc = "pixels"]
                   ELSE [pk EXCEPT !.pc = "check"]
       \/ /\ pk.pc = "pixels"
          /\ pk' = IF pk.sx < smallest(pk.mask_x + PEAK_WINDOW_SIZE \div 2,
                                       pk_image.width - 1)
                   THEN IF pk_image.data[pk.sx + pk_image.width * pk.sy]
                              > pk.max
                        THEN [pk EXCEPT
                                !.max = pk_image.data[pk.sx
                                           + pk_image.width * pk.sy],
                                !.mask_x = pk.sx, !.mask_y = pk.sy,
                                !.did_something = 1, !.sx = @ + 1]
                        ELSE [pk EXCEPT !.sx = @ + 1]
                   ELSE [pk EXCEPT !.sy = @ + 1, !.pc = "rows"]
       \/ /\ pk.pc = "check"
          /\ pk' = IF pk.did_something # 0
                   THEN [pk EXCEPT !.pc = "climb"]
                   ELSE [pk EXCEPT !.pc = "after"]
    /\ UNCHANGED <<pk_image, pk_features, not_peak_vars>>

(* the do ... while, statement by statement: max = data[...] and          *)
(* did_something = 0, the two for loops with the test of each pixel, and   *)
(* the break and the while test.  max0 keeps the value max had when the    *)
(* turn began.                                                             *)
ClimbStep ==
    /\ \/ /\ pk.pc = "climb"
          /\ pk' = [pk EXCEPT
                !.max = pk_image.data[pk.mask_x + pk_image.width * pk.mask_y],
                !.max0 = pk_image.data[pk.mask_x + pk_image.width * pk.mask_y],
                !.did_something = 0,
                !.sy = biggest(pk.mask_y - PEAK_WINDOW_SIZE \div 2, 0),
                !.pc = "rows"]
       \/ /\ pk.pc = "rows"
          /\ pk' = IF pk.sy < smallest(pk.mask_y + PEAK_WINDOW_SIZE \div 2,
                                       pk_image.height - 1)
                   THEN [pk EXCEPT
                           !.sx = biggest(pk.mask_x - PEAK_WINDOW_SIZE \div 2,
                                          0),
                           !.pc = "pixels"]
                   ELSE [pk EXCEPT !.pc = "check"]
       \/ /\ pk.pc = "pixels"
          /\ pk' = IF pk.sx < smallest(pk.mask_x + PEAK_WINDOW_SIZE \div 2,
                                       pk_image.width - 1)
                   THEN IF pk_image.data[pk.sx + pk_image.width * pk.sy]
                              > pk.max
                        THEN [pk EXCEPT
                                !.max = pk_image.data[pk.sx
                                           + pk_image.width * pk.sy],
                                !.mask_x = pk.sx, !.mask_y = pk.sy,
                                !.did_something = 1, !.sx = @ + 1]
                        ELSE [pk EXCEPT !.sx = @ + 1]
                   ELSE [pk EXCEPT !.sy = @ + 1, !.pc = "rows"]
       \/ /\ pk.pc = "check"
          /\ pk' = IF TooFar(pk.mask_x, pk.mask_y, pk.x, pk.y)
                   THEN [pk EXCEPT !.pc = "after"]
                   ELSE IF pk.did_something # 0
                        THEN [pk EXCEPT !.pc = "climb"]
                        ELSE [pk EXCEPT !.pc = "after"]
    /\ UNCHANGED <<pk_image, pk_features, not_peak_vars>>

(* "Too far from foot point?": the pixel is given up, or goes on to the    *)
(* hot pixel test                                                          *)
ClimbEnd ==
    /\ pk.pc = "after"
    /\ pk' = IF TooFar(pk.mask_x, pk.mask_y, pk.x, pk.y)
             THEN [pk EXCEPT !.nrej_dis = @ + 1, !.last = "distance",
                             !.pc = "continue"]
             ELSE [pk EXCEPT !.last = "candidate", !.pc = "hot"]
    /\ UNCHANGED <<pk_image, pk_features, not_peak_vars>>

(* search_peaks runs on one thread, which keeps running *)
SpecClimb ==
    InitClimb /\ [][ClimbStep \/ ClimbEnd]_vars
       /\ WF_vars(ClimbStep \/ ClimbEnd)


(* ======================================================================= *)
(* index.c: index_pattern                                                  *)
(* ======================================================================= *)

(* indm is the list of methods before its INDEXING_NONE terminator.  A     *)
(* candidate cell is what matters of it here: whether match_cell finds a   *)
(* cell for it and whether that cell passes peak_sanity_check.             *)
InitIndex ==
    /\ \E len \in 0 .. MaxMethods :
          ix_args \in [indm : [1 .. len -> {"INDEXING_DIRAX",
                                            "INDEXING_MOSFLM"}],
                       cellr : {"CELLR_NONE", "CELLR_REDUCE", "CELLR_COMPARE"},
                       config_insane : {0, 1}]
    /\ ix = [pc |-> "while", n |-> 0, i |-> 0, ncells |-> 0,
             candidate_cells |-> <<>>, indexed_cell |-> <<>>, runs |-> <<>>]
    /\ IdleAllBut("index")

(* one turn of the while loop up to the loop over the candidates, as it    *)
(* would be were goto done left out after the first candidate is taken     *)
IndexMethod_NoGoto ==
    /\ ix.pc = "while"
    /\ IF ix.n >= Len(ix_args.indm)
       THEN ix' = [ix EXCEPT !.pc = "done"]
       ELSE \E cells \in UNION { [1 .. k -> [match : BOOLEAN, sane : BOOLEAN]] :
                                   k \in 0 .. MaxCells } :
               LET ran == [ix EXCEPT
                             !.ncells = Len(cells),
                             !.candidate_cells = cells,
                             !.runs = Append(@, [indm |-> ix_args.indm[ix.n + 1],
                                                 cells |-> cells])]
               IN ix' = IF Len(cells) = 0 THEN [ran EXCEPT !.n = @ + 1]
                        ELSE IF ix_args.cellr = "CELLR_NONE"
                        THEN [ran EXCEPT !.indexed_cell = <<ix.n + 1, 1>>,
                                         !.n = @ + 1]
                        ELSE [ran EXCEPT !.i = 0, !.pc = "for"]
    /\ UNCHANGED <<ix_args, not_index_vars>>

(* one turn of while ( indm[n] != INDEXING_NONE ) up to the loop over the  *)
(* candidates: ncells = 0, the method is run and leaves its candidates;    *)
(* with none the next method is tried, and with CELLR_NONE the first one   *)
(* is taken.  runs keeps the methods run and what they returned.           *)
IndexMethod ==
    /\ ix.pc = "while"
    /\ IF ix.n >= Len(ix_args.indm)
       THEN ix' = [ix EXCEPT !.pc = "done"]
       ELSE \E cells \in UNION { [1 .. k -> [match : BOOLEAN, sane : BOOLEAN]] :
                                   k \in 0 .. MaxCells } :
               LET ran == [ix EXCEPT
                             !.ncells = Len(cells),
                             !.candidate_cells = cells,
                             !.runs = Append(@, [indm |-> ix_args.indm[ix.n + 1],
                                                 cells |-> cells])]
               IN ix' = IF Len(cells) = 0 THEN [ran EXCEPT !.n = @ + 1]
                        ELSE IF ix_args.cellr = "CELLR_NONE"
                        THEN [ran EXCEPT !.indexed_cell = <<ix.n + 1, 1>>,
                                         !.pc = "done"]
                        ELSE [ran EXCEPT !.i = 0, !.pc = "for"]
    /\ UNCHANGED <<ix_args, not_index_vars>>

(* one turn of for ( i=0; i<image->ncells; i++ ): match_cell, then the     *)
(* sanity check unless config_insane; past the last candidate the cells    *)
(* are freed and the next method is tried                                  *)
IndexCandidate ==
    /\ ix.pc = "for"
    /\ IF ix.i < ix.ncells
       THEN LET c == ix.candidate_cells[ix.i + 1]
            IN ix' = IF ~c.match THEN [ix EXCEPT !.i = @ + 1]
                     ELSE IF ix_args.config_insane = 0 /\ ~c.sane
                     THEN [ix EXCEPT !.i = @ + 1]
                     ELSE [ix EXCEPT !.indexed_cell = <<ix.n + 1, ix.i + 1>>,
                                     !.pc = "done"]
       ELSE ix' = [ix EXCEPT !.candidate_cells = <<>>, !.n = @ + 1,
                             !.pc = "while"]
    /\ UNCHANGED <<ix_args, not_index_vars>>

SpecIndex == InitIndex /\ [][IndexMethod \/ IndexCandidate]_vars


(* ======================================================================= *)
(* cell: match_cell, the candidate vectors for each axis of the template   *)
(* ======================================================================= *)

MAX_CAND == 1024

(* the reciprocal axes cell_get_reciprocal hands back for the cell         *)
RecipAxes == { <<x, y, 0>> : x, y \in 0 .. MaxRecip }

(* within_tolerance(a, b, percent) for lengths a, b >= 0 given by their    *)
(* squares a2, b2: fabs(b-a) < a*(percent/100.0), that is                  *)
(* a*(100-percent) < 100*b < a*(100+percent), compared after squaring      *)
within_tolerance_Unscaled(a2, b2, percent) ==
    /\ a2 > 0
    /\ b2 < (1 + percent) * (1 + percent) * a2
within_tolerance(a2, b2, percent) ==
    /\ a2 > 0
    /\ IF percent < 100
       THEN (100 - percent) * (100 - percent) * a2 < 100 * 100 * b2
       ELSE percent > 100 \/ b2 > 0
    /\ 100 * 100 * b2 < (100 + percent) * (100 + percent) * a2

InitMatchCell ==
    /\ mc_args \in
          [template : {[r |-> 1, axes |-> <<>>],
                       [r |-> 0, axes |-> << <<1, 0, 0>>, <<0, 1, 0>>,
                                             <<0, 0, 1>> >>],
                       [r |-> 0, axes |-> << <<1, 0, 0>>, <<1, 1, 0>>,
                                             <<0, 0, 2>> >>]},
           cell : {[r |-> 1, axes |-> <<>>]} \cup
                  {[r |-> 0, axes |-> <<a, b, <<0, 0, z>> >>] :
                     a \in RecipAxes, b \in RecipAxes, z \in 0 .. MaxRecip}]
    /\ mc = [pc |-> "start", n1l |-> -2, n2l |-> -2, n3l |-> -2,
             ncand |-> <<0, 0, 0>>, top |-> <<-1, -1, -1>>,
             errors |-> {}, cand |-> "none", new_cell |-> "NULL"]
    /\ IdleAllBut("match")

(* the two cell_get_reciprocal calls and the three mallocs between them *)
MatchCellStart ==
    /\ mc.pc = "start"
    /\ mc' = IF mc_args.template.r # 0
             THEN [mc EXCEPT !.pc = "returned",
                     !.errors = {"Couldn't get reciprocal cell for template."}]
             ELSE IF mc_args.cell.r # 0
             THEN [mc EXCEPT !.pc = "returned", !.cand = "allocated",
                     !.errors = {"Couldn't get reciprocal cell."}]
             ELSE [mc EXCEPT !.pc = "scan", !.cand = "allocated"]
    /\ UNCHANGED <<mc_args, not_match_vars>>

(* one turn of the n1l, n2l, n3l loops: the eight turns of the b1, b2, b3  *)
(* loops, each testing the vector against the three template lengths.      *)
(* n1, n2, n3 are kept doubled (Twice), so lengths are doubled too and     *)
(* their squares carry a factor 4; each is negated once for every -1 its   *)
(* bit has taken so far (n1 *= b1).  The candidate is written to           *)
(* cand[i][ncand[i]] before ncand[i] is compared with MAX_CAND, and        *)
(* ncand[i] goes up by one unless it is MAX_CAND: the h hits of one turn   *)
(* write at ncand[i], ncand[i]+1, ... and stay at MAX_CAND once there.     *)
(* top[i] is the highest index written so far.                             *)
MatchCellScan ==
    /\ mc.pc = "scan"
    /\ LET ltl == 5
           Twice(nl) == IF nl >= 0 THEN 2 * nl ELSE 2 \div nl
           bits == << <<-1, -1, -1>>, <<-1, -1, 1>>, <<-1, 1, -1>>,
                      <<-1, 1, 1>>, <<1, -1, -1>>, <<1, -1, 1>>,
                      <<1, 1, -1>>, <<1, 1, 1>> >>
           n(k) == [j \in 1 .. 3 |->
                      IF Cardinality({m \in 1 .. k : bits[m][j] = -1}) % 2 = 1
                      THEN 0 - Twice(<<mc.n1l, mc.n2l, mc.n3l>>[j])
                      ELSE Twice(<<mc.n1l, mc.n2l, mc.n3l>>[j])]
           modulus2(v) == v[1] * v[1] + v[2] * v[2] + v[3] * v[3]
           lengths2 == [i \in 1 .. 3 |->
                          4 * modulus2(mc_args.template.axes[i])]
           axes == mc_args.cell.axes
           t(nk) == [j \in 1 .. 3 |-> nk[1] * axes[1][j]
                                      + nk[2] * axes[2][j]
                                      + nk[3] * axes[3][j]]
           Larger(x, y) == IF x > y THEN x ELSE y
           after(tlen2, i) ==
               LET h == Cardinality({k \in 1 .. 8 :
                           within_tolerance(lengths2[i], tlen2[k], ltl)})
                   last == IF mc.ncand[i] + h - 1 < MAX_CAND
                           THEN mc.ncand[i] + h - 1 ELSE MAX_CAND
               IN [ncand |-> IF mc.ncand[i] + h < MAX_CAND
                             THEN mc.ncand[i] + h ELSE MAX_CAND,
                   top |-> IF h = 0 THEN mc.top[i]
                           ELSE Larger(mc.top[i], last),
                   full |-> mc.ncand[i] + h > MAX_CAND]
           next == IF mc.n3l < 4
                   THEN [mc EXCEPT !.n3l = @ + 1]
                   ELSE IF mc.n2l < 4
                   THEN [mc EXCEPT !.n3l = -2, !.n2l = @ + 1]
                   ELSE IF mc.n1l < 4
                   THEN [mc EXCEPT !.n3l = -2, !.n2l = -2, !.n1l = @ + 1]
                   ELSE [mc EXCEPT !.pc = "angles"]
       IN \E ns \in {[k \in 1 .. 8 |-> n(k)]} :
          \E ts \in {[k \in 1 .. 8 |-> t(ns[k])]} :
          \E tlen2 \in {[k \in 1 .. 8 |-> modulus2(ts[k])]} :
          \E now \in {[i \in 1 .. 3 |-> after(tlen2, i)]} :
             mc' = [next EXCEPT
                      !.ncand = [i \in 1 .. 3 |-> now[i].ncand],
                      !.top = [i \in 1 .. 3 |-> now[i].top],
                      !.errors = IF \E i \in 1 .. 3 : now[i].full
                                 THEN @ \cup {"Too many candidates"}
                                 ELSE @]
    /\ UNCHANGED <<mc_args, not_match_vars>>

(* the search through the three candidate lists and the return.  The angle *)
(* tests are not computed: where every list has a candidate the search may *)
(* or may not find a cell.                                                 *)
MatchCellEnd ==
    /\ mc.pc = "angles"
    /\ \E found \in {"NULL"} \cup
                    (IF \A i \in 1 .. 3 : mc.ncand[i] > 0
                     THEN {"new_cell"} ELSE {}) :
          mc' = [mc EXCEPT !.pc = "returned", !.cand = "freed",
                           !.new_cell = found]
    /\ UNCHANGED <<mc_args, not_match_vars>>

SpecMatchCell ==
    InitMatchCell /\ [][MatchCellStart \/ MatchCellScan \/ MatchCellEnd]_vars


(* ======================================================================= *)
(* Properties                                                              *)
(* ======================================================================= *)

Started == { w \in Workers : rw[w].pc # "unborn" }

(* a worker owns its mytask from the claim until it has marked it finished *)
Holding(w) ==
    \/ rw[w].pc \in {"work", "done_lock", "mark"}
    \/ rw[w].pc = "get_unlock" /\ rw[w].found = 1

AllFinished == \A i \in Slots : q.status[i] = TASK_FINISHED

(* C1: range mode - when run_thread_range returns, every one of the T      *)
(* slots is FINISHED (the caller is not released while a slot is READY or  *)
(* RUNNING), for every T >= 0 and N >= 1.                                  *)
C1_AllFinishedOnReturn ==
    rpc = "returned" => AllFinished

(* C2: range mode - under every interleaving of the workers the work       *)
(* function is invoked exactly once per index: no slot is claimed by two   *)
(* workers (a RUNNING slot has exactly one owner), no index is skipped (a  *)
(* worker leaves only when no slot is READY), and on completion the shared *)
(* counter equals T.                                                       *)
C2_ExactlyOnce ==
    /\ \A i \in Slots :
          /\ calls[i] <= 1
          /\ q.status[i] = TASK_READY => calls[i] = 0
          /\ q.status[i] = TASK_FINISHED => calls[i] = 1
          /\ q.status[i] = TASK_RUNNING
                => Cardinality({ w \in Workers :
                                   Holding(w) /\ rw[w].mytask = i }) = 1
    /\ \A w \in Workers : rw[w].pc = "exited" => ReadySlots = {}
    /\ AllFinished => /\ \A i \in Slots : calls[i] = 1
                      /\ counter = q.n_tasks

C2_Witness ==
    /\ rpc = "returned"
    /\ q.n_tasks = MaxTasks
    /\ Cardinality(Started) >= 2
    /\ \A i \in Slots : calls[i] = 1
    /\ counter = MaxTasks

(* C3: range mode - the slot a worker marks RUNNING is the smallest-index  *)
(* READY slot at that moment; the scan and the READY->RUNNING write happen *)
(* while the worker holds the lock; the work function runs without it.     *)
C3_ClaimSmallestUnderLock ==
    /\ [](\A w \in Workers :
            /\ rw[w].pc \in {"scan", "claim", "get_unlock"} => q.lock = w
            /\ rw[w].pc = "work" => q.lock # w)
    /\ [][\A i \in Slots :
            (q.status[i] = TASK_READY /\ q'.status[i] = TASK_RUNNING)
               => /\ i = Min(ReadySlots)
                  /\ q.lock \in Workers
                  /\ rw[q.lock].pc = "claim"
                  /\ rw'[q.lock].mytask = i
                  /\ q'.lock = q.lock]_vars

C3_Witness ==
    /\ q.n_tasks >= 3
    /\ q.status[0] = TASK_FINISHED
    /\ q.status[1] = TASK_RUNNING
    /\ q.status[2] = TASK_RUNNING
    /\ \E w \in Workers : rw[w].pc = "work" /\ rw[w].mytask = 2

(* C4: range mode - n_done never decreases and rises by one per finished   *)
(* task; the values handed to the progress bar are 1, 2, ... in call       *)
(* order (up to T); whenever the lock is free n_done is the number of      *)
(* FINISHED slots.                                                         *)
C4_ProgressMonotone ==
    /\ [](/\ q.lock = NoOwner
             => /\ q.n_done = Cardinality(FinishedSlots)
                /\ q.text # NULL => Len(progress) = q.n_done
          /\ \A k \in 1 .. Len(progress) : progress[k] = k
          /\ Len(progress) <= q.n_tasks
          /\ q.text = NULL => progress = <<>>
          /\ (AllFinished /\ q.lock = NoOwner /\ q.text # NULL)
                => progress = [k \in 1 .. q.n_tasks |-> k])
    /\ [][\/ q'.n_done = q.n_done
          \/ /\ q'.n_done = q.n_done + 1
             /\ q.lock \in Workers
             /\ q.status[rw[q.lock].mytask] = TASK_FINISHED]_vars

C4_Witness ==
    /\ q.n_tasks = MaxTasks
    /\ q.text # NULL
    /\ q.lock = NoOwner
    /\ AllFinished
    /\ progress = [k \in 1 .. MaxTasks |-> k]
    /\ Cardinality(Started) >= 2

(* C5: range mode - when more workers are requested than there are tasks   *)
(* (N > T) the pool reduces N to T: at most T threads are created and      *)
(* joined, none when T = 0.                                                *)
C5_AtMostTWorkers ==
    /\ Cardinality(Started) <= q.n_tasks
    /\ rpc \in {"create", "join", "returned"}
          => /\ n_threads <= q.n_tasks
             /\ n_threads <= arg_threads
             /\ (arg_threads > q.n_tasks /\ n_errors = 0)
                    => n_threads = q.n_tasks
    /\ rpc \in {"join", "returned"}
          => /\ ri <= n_threads
             /\ n_threads = Cardinality(Started)
    /\ rpc = "returned" => ri = Cardinality(Started)
    /\ q.n_tasks = 0 => Started = {}

C5_Witness ==
    /\ rpc = "returned"
    /\ arg_threads > q.n_tasks
    /\ q.n_tasks >= 1
    /\ ri = q.n_tasks
    /\ Cardinality(Started) = q.n_tasks

(* C6: when creating a worker thread fails the pool stops creating         *)
(* threads, goes on with the workers already started, records the          *)
(* shortfall, joins only the started workers, and every task is still      *)
(* completed before the call returns.                                      *)
C6_AllDoneDespiteCreateFailure ==
    /\ n_errors > 0 => /\ rpc \in {"join", "returned"}
                       /\ n_errors = 1
                       /\ n_threads = Cardinality(Started)
                       /\ ri <= n_threads
    /\ (n_errors > 0 /\ rpc = "returned")
          => /\ ri = Cardinality(Started)
             /\ AllFinished

(* ---- streaming mode ---- *)

TStarted == { w \in Workers : tw[w].pc # "unborn" }

Count(seq, x) == Cardinality({ k \in 1 .. Len(seq) : seq[k] = x })

(* get_task was always called by the holder of the lock *)
GetTaskUnderLock ==
    \A k \in 1 .. Len(gt_calls) : gt_calls[k].lock = gt_calls[k].by

(* the work function runs with the lock released *)
WorkUnlocked ==
    \A w \in Workers : tw[w].pc = "work" => tq.lock # w

(* C7: streaming mode - the number of tasks started never exceeds max;     *)
(* get_task is never called once max tasks have started; a worker leaves   *)
(* as soon as get_task returns NULL and does not count it as started.      *)
C7_CapRespected ==
    /\ [](/\ tq.n_started <= tq.max
          /\ \A k \in 1 .. Len(gt_calls) : gt_calls[k].n_started < tq.max
          /\ \A t \in 1 .. MaxJobs : worked[t] <= 1
          /\ Cardinality({ t \in 1 .. MaxJobs : worked[t] > 0 }) <= tq.max)
    /\ [][\A w \in Workers :
            (tw[w].pc = "check_null" /\ tw[w].task = NULL /\ tw'[w] # tw[w])
               => /\ tw'[w].pc = "exited"
                  /\ tq'.n_started = tq.n_started
                  /\ tq'.lock = NoOwner]_vars

C7_Witness ==
    /\ tpc = "returned"
    /\ tq.n_started > 0
    /\ tq.n_started < tq.max
    /\ Len(gt_calls) > tq.n_started
    /\ Cardinality(TStarted) >= 2

(* C8: streaming mode - get_task is called only under the lock, the work   *)
(* function runs with the lock released, and after each task's work        *)
(* returns the done hook (finalise_job: n_done++ and one chunk) has been   *)
(* called exactly once for that task while the lock was held.              *)
C8_DoneHookOncePerTask ==
    /\ GetTaskUnderLock
    /\ WorkUnlocked
    /\ tq.lock = NoOwner => qargs.n_done = tq.n_completed

(* C9: the pool observes the shared stop flag - once it is set no worker   *)
(* goes from the top of its loop on to take another task, and the pool     *)
(* returns after the running tasks have finished.                          *)
C9_NoTaskAfterStop ==
    [][stop => \A w \in Workers :
                  ~(rw[w].pc = "get_lock" /\ rw'[w].pc = "scan")]_vars

NoDuplicateHKL ==
    \A i, j \in 1 .. Len(full) : full[i].hkl = full[j].hkl => i = j

AddedUnderWriteLock ==
    Len(full') # Len(full) =>
       \E w \in Workers :
          /\ full_lock.writer = w
          /\ full_lock.readers = {}
          /\ cp[w].pc = "add"
          /\ cp[w].rfull = NULL
          /\ find_refl(full, CurHKL(w)) = NULL
          /\ Len(full') = Len(full) + 1
          /\ full'[Len(full')].hkl = CurHKL(w)

C11_NoDuplicateReflection ==
    /\ [](random_intensities = 1 => NoDuplicateHKL)
    /\ [][random_intensities = 1 => AddedUnderWriteLock]_vars

(* the race the second lookup is there for: a worker holds the write lock  *)
(* after a first lookup that found nothing, and the reflection is there    *)
C11_Witness ==
    /\ random_intensities = 1
    /\ \E w \in Workers :
          /\ cp[w].pc = "find2"
          /\ full_lock.writer = w
          /\ cp[w].rfull = NULL
          /\ find_refl(full, CurHKL(w)) # NULL

(* C12: after every call of select_reflections_for_refinement (the initial *)
(* one and the one that ends each cycle) a reflection is refinable if and  *)
(* only if it is scalable and its match in the full list has redundancy    *)
(* of at least 2 or a reference list was given; one that was refinable     *)
(* before stops being so when the redundancy has fallen below 2.           *)
ShouldBeRefinable(refl) ==
    /\ refl.scalable = 1
    /\ \/ pa.have_reference # 0
       \/ LET f == find_refl(pfull, refl.hkl)
          IN f # NULL /\ pfull[f].redundancy >= 2

C12_RefinableIffScalableAndRedundant ==
    pa.pc = "loop" =>
       \A n \in 1 .. Len(pimages) :
          \A k \in 1 .. Len(pimages[n].reflections) :
             pimages[n].reflections[k].refinable = 1
                <=> ShouldBeRefinable(pimages[n].reflections[k])

(* C13: the outer loop ends after n_iter cycles, n_iter being 10 or the    *)
(* value given with -n or --iterations, or earlier as soon as the largest  *)
(* change of a scale factor is below the tolerance (one unit here); it     *)
(* never begins a cycle beyond n_iter.                                     *)
RequestedIter == IF pa_args.n = "none" THEN DefaultIter ELSE pa_args.n_val

Converged == pa.phase = "cycle" /\ pa.i > 0 /\ pa.dosf = 0

C13_LoopEndsAtIterOrConvergence ==
    /\ [](pa.pc = "refine" => pa.i < RequestedIter /\ ~Converged)
    /\ [][(pa.pc = "parse" /\ ~pa_args.h /\ pa_args.b # "bad")
             => (pa'.pc = "open" /\ pa'.n_iter = RequestedIter)]_vars

(* C14: without -i, without -y or without -b partialator ends with a       *)
(* status other than 0 and has read no pattern by then.                    *)
C14_RequiredOptions ==
    (~pa_args.h /\ (pa_args.i = "none" \/ pa_args.y = "none"
                       \/ pa_args.b = "none"))
       => (pa.n_read = 0 /\ (pa.pc = "exit" => pa.status # 0))

(* C15: indexamajig ends with status 1 on every setup failure (no -i, -g   *)
(* or -o, input that cannot be opened, zero processes, geometry, cell or   *)
(* spectrum that cannot be read, no temporary folder, no indexing system,  *)
(* output stream that cannot be opened) and create_sandbox is then never   *)
(* called; in every other run that argp_parse returns from, the status is  *)
(* the one create_sandbox returned.                                        *)
SetupFailed ==
    \/ ia_args.parse = "einval"
    \/ ia_args.filename = "NULL"
    \/ ia_args.geom_filename = "NULL"
    \/ ia_args.outfile = "NULL"
    \/ ia_args.n_proc = 0
    \/ ia.fh = "NULL"
    \/ ia.det = "NULL"
    \/ ia.cell = "NULL"
    \/ ia.spectrum = "NULL"
    \/ ia.tmpdir = "NULL"
    \/ ia.chdir_tmp = "failed"
    \/ ia.pc = "exit" /\ ia.indm_str = "NULL"
    \/ ia.ipriv = "failed"
    \/ ia.chdir_back = "failed"
    \/ ia.st = "NULL"
    \/ ia.zmq_address = "NULL"

C15_SetupFailureExitsOne ==
    /\ SetupFailed => ia.sandbox = "not called"
    /\ (ia.pc = "exit" /\ ia_args.parse # "help") =>
          IF SetupFailed
          THEN ia.status = 1
          ELSE ia.sandbox = "called" /\ ia.status = ia.r

(* a failure late in the setup: the indexing system is set up, the output  *)
(* stream cannot be opened                                                 *)
C15_Witness ==
    /\ ia.pc = "exit"
    /\ ia.ipriv = "set up"
    /\ ia.st = "NULL"
    /\ ia.status = 1
    /\ ia.sandbox = "not called"

(* C16: the timeout given to create_sandbox is 3000 s if and only if one   *)
(* of the prepared indexing methods is PinkIndexer, and 240 s otherwise,   *)
(* also when indexing is disabled.                                         *)
UsesPinkIndexer ==
    \E k \in 1 .. Len(ia.prepared) : ia.prepared[k].method = INDEXING_PINKINDEXER

C16_TimeoutByMethod ==
    ia.sandbox = "called" =>
       ia.sandbox_timeout = IF UsesPinkIndexer THEN 3000 ELSE 240

(* PinkIndexer prepared with flags set, behind another method *)
C16_Witness ==
    /\ ia.sandbox = "called"
    /\ ia.sandbox_timeout = 3000
    /\ Len(ia.prepared) = 2
    /\ ia.prepared[1].method # INDEXING_PINKINDEXER
    /\ ia.prepared[2].method = INDEXING_PINKINDEXER
    /\ ia.prepared[2].flags # 0

(* C17: after cull_peaks, a fast-scan column that held more than three     *)
(* peaks holds none, so no column of the final list holds more than three, *)
(* and the peaks of a column with three or fewer are all kept.             *)
InColumn(k) == { j \in 1 .. Len(pk_features) :
                    pk_features[j].x = pk_features[k].x }

KeptInColumn(k) == { j \in InColumn(k) : pk_features[j].valid }

C17_ColumnsOverThreeCulled ==
    pk.pc = "done" =>
       \A k \in 1 .. Len(pk_features) :
          /\ Cardinality(KeptInColumn(k)) <= 3
          /\ Cardinality(InColumn(k)) > 3 => KeptInColumn(k) = {}
          /\ Cardinality(InColumn(k)) <= 3 => KeptInColumn(k) = InColumn(k)

(* C18: while search_peaks scans, any two peaks of the feature list are at *)
(* least 15 pixels apart, a candidate with an accepted peak within 15      *)
(* pixels of its centroid being rejected; the candidate tested against the *)
(* empty list is not rejected for proximity.                               *)
Defined(f) == ~IsNaN(f.x) /\ ~IsNaN(f.y)

AtLeastApart(f, g, lim) ==
    Defined(f) /\ Defined(g) /\ ~CloserThan(f.x, f.y, g.x, g.y, lim)

C18_PeaksFifteenApart ==
    /\ [](pk.pc \in {"search", "cull"} =>
            \A i, j \in 1 .. Len(pk_features) :
               i # j => AtLeastApart(pk_features[i], pk_features[j], 15))
    /\ [][(pk.pc = "search" /\ pk_features = <<>>)
             => pk'.nrej_pro = pk.nrej_pro]_vars

(* C19: every accepted peak has its centroid on the panel, 0 <= fs <=      *)
(* width and 0 <= ss <= height; a candidate whose centroid is outside, or  *)
(* undefined because the intensities of the disk sum to zero, is not added *)
OnPanel(f) ==
    /\ Defined(f)
    /\ ~FloatLess(f.x, FromInt(0)) /\ ~FloatLess(FromInt(pk_image.width), f.x)
    /\ ~FloatLess(f.y, FromInt(0)) /\ ~FloatLess(FromInt(pk_image.height), f.y)

C19_CentroidOnPanel ==
    pk.pc \in {"search", "cull"} =>
       \A k \in 1 .. Len(pk_features) : OnPanel(pk_features[k])

(* C20: for a cell whose axis matrix is singular, every getter that needs  *)
(* the matrix inversion (cell_get_cartesian of a reciprocal cell,          *)
(* cell_get_reciprocal of a crystallographic or Cartesian cell,            *)
(* cell_get_parameters of a reciprocal cell) returns non-zero.             *)
NeedsInversion(fn) ==
    \/ fn = "cell_get_cartesian" /\ cell.rep = "CELL_REP_RECIP"
    \/ fn = "cell_get_reciprocal" /\ cell.rep \in {"CELL_REP_CRYST",
                                                   "CELL_REP_CART"}
    \/ fn = "cell_get_parameters" /\ cell.rep = "CELL_REP_RECIP"

(* the stored axes are all written and their determinant is zero *)
SingularAxes ==
    LET axes == IF cell.rep = "CELL_REP_RECIP" THEN cell.recip ELSE cell.cart
    IN IF cell.rep = "CELL_REP_CRYST"
       THEN LET t == cell_crystallographic_to_cartesian(cell).out
            IN cell_invert(t[1], t[2], t[3], TRUE).r = 1
       ELSE /\ \A k \in 1 .. 3 : axes[k] # <<>>
            /\ \A a \in Stored(axes[1]), b \in Stored(axes[2]),
                  c \in Stored(axes[3]) : cell_invert(a, b, c, TRUE).r = 1

C20_SingularCellRejected ==
    (cell # NoCell /\ NeedsInversion(cell_out.fn) /\ SingularAxes)
       => cell_out.r # 0

(* C21: a UnitCell is in exactly one of the three representations; after   *)
(* a constructor or a setter the tag is the kind of that call, and the     *)
(* getters cell_get_parameters, cell_get_cartesian and cell_get_reciprocal *)
(* leave the tag and every stored field as they were, so the tag stays     *)
(* the kind of the last setter applied.                                    *)
KindOf(fn) ==
    IF fn \in {"cell_new", "cell_set_parameters", "cell_new_from_parameters"}
    THEN "CELL_REP_CRYST"
    ELSE IF fn \in {"cell_set_cartesian", "cell_set_cartesian_abc"}
    THEN "CELL_REP_CART"
    ELSE IF fn = "cell_new_from_axes" THEN "CELL_REP_RECIP"
    ELSE "getter"

C21_OneRepresentation ==
    /\ [](cell # NoCell =>
            /\ cell.rep \in {"CELL_REP_CRYST", "CELL_REP_CART",
                             "CELL_REP_RECIP"}
            /\ KindOf(cell_out.fn) # "getter" =>
                  cell.rep = KindOf(cell_out.fn))
    /\ [][KindOf(cell_out'.fn) = "getter" => cell' = cell]_vars

C21_Witness ==
    /\ cell # NoCell
    /\ cell.rep = "CELL_REP_CART"
    /\ cell.a = 1 /\ cell.c = 0
    /\ cell.recip # <<<<>>, <<>>, <<>>>>
    /\ cell_out.fn = "cell_get_reciprocal"
    /\ cell_out.written

(* ---- C22 ---------------------------------------------------------------- *)

C23_DuplicateKeyWarns ==
    LET hits == { e \in 1 .. Len(zmq_obj) : zmq_obj[e].key = "peak_list" }
        warned == \E m \in 1 .. Len(zmq.messages) :
                     zmq.messages[m] = "MalformedInput"
    IN (zmq.pc = "ready" /\ zmq.get_peaks_onda = 0 /\ hits # {}) =>
          /\ zmq_image.num_peaks =
                Len(zmq_obj[CHOOSE e \in hits : \A f \in hits : f <= e].val[1])
          /\ Cardinality(hits) > 1 => warned
          /\ Cardinality(hits) = 1 => ~warned


(* ---- C27 ---------------------------------------------------------------- *)

(* C27: obj_read returns non-zero when the geometry is missing, when an    *)
(* allocation fails and when a panel lies outside the data, and it has     *)
(* then freed every buffer and top-level array it had allocated            *)
C27_FailureFreesBuffers ==
    (zmq.pc = "ready" /\ zmq.obj_read # -1) =>
       /\ Len(zmq.messages) > 0 => zmq.obj_read # 0
       /\ zmq.obj_read # 0 => zmq.allocated \subseteq zmq.freed


(* ---- C24 ---------------------------------------------------------------- *)

(* C24: without --tolerance, setup_indexing is given the six values that   *)
(* --tolerance=5,5,5,1.5,1.5,1.5 gives it: 5 percent as a fraction for     *)
(* the lengths and 1.5 degrees in radians for the angles                   *)
C24_DefaultTolerances ==
    (ia.pc # "idle" /\ ia.setup_tols # <<>> /\ ia_args.tolerance = <<>>) =>
       ia.setup_tols =
          parse_tolerance(<< Tol(5, 1, 0), Tol(5, 1, 0), Tol(5, 1, 0),
                             Tol(15, 10, 0), Tol(15, 10, 0), Tol(15, 10, 0) >>,
                          DefaultTols)


(* ---- C25 ---------------------------------------------------------------- *)

(* C25: every hill climb of search_peaks ends; the mask only ever moves to *)
(* a strictly larger pixel, and a turn is followed by another only if it   *)
(* has moved it; the climb does not go on from a mask more than 50 pixels  *)
(* from the foot point, and a pixel whose climb ends that far away is      *)
(* rejected, not kept as a candidate                                       *)
C25_ClimbTerminates ==
    /\ [][/\ (pk.mask_x # pk'.mask_x \/ pk.mask_y # pk'.mask_y) =>
               pk_image.data[pk'.mask_x + pk_image.width * pk'.mask_y]
                  > pk_image.data[pk.mask_x + pk_image.width * pk.mask_y]
          /\ (pk.pc = "check" /\ pk'.pc = "climb") => pk.max > pk.max0]_vars
    /\ [](pk.pc = "climb" => ~TooFar(pk.mask_x, pk.mask_y, pk.x, pk.y))
    /\ [](pk.pc = "hot" => ~TooFar(pk.mask_x, pk.mask_y, pk.x, pk.y))
    /\ [](pk.pc \in {"hot", "continue"} =>
            LET m == Climb(pk_image, pk.x, pk.y, pk.x, pk.y)
            IN pk.mask_x = m.mask_x /\ pk.mask_y = m.mask_y)
    /\ <>(pk.pc \in {"hot", "continue"})

(* a climb that was given up more than 50 pixels from its foot point *)
C25_Witness ==
    /\ pk.pc = "continue" /\ pk.last = "distance" /\ pk.nrej_dis = 1
    /\ TooFar(pk.mask_x, pk.mask_y, pk.x, pk.y)


(* ---- C26 ---------------------------------------------------------------- *)

(* the first candidate of a run that counts as accepted: the first one     *)
(* with CELLR_NONE, else the first that matches the target cell and passes *)
(* the peak sanity check; 0 if the run has none                            *)
FirstAccepted(run) ==
    LET ok == { k \in 1 .. Len(run.cells) :
                  \/ ix_args.cellr = "CELLR_NONE"
                  \/ run.cells[k].match /\ run.cells[k].sane }
    IN IF ok = {} THEN 0 ELSE CHOOSE k \in ok : \A j \in ok : k <= j

(* C26: index_pattern runs the methods in the order of the list; a method  *)
(* is run only after every method before it gave no candidate or none that *)
(* was accepted, and none is run after one that gave an accepted cell      *)
C26_MethodsInListOrder ==
    ix.pc # "idle" =>
       /\ Len(ix.runs) <= Len(ix_args.indm)
       /\ \A k \in 1 .. Len(ix.runs) :
             /\ ix.runs[k].indm = ix_args.indm[k]
             /\ k < Len(ix.runs) => FirstAccepted(ix.runs[k]) = 0
       /\ (ix.pc = "done" /\ ix.indexed_cell = <<>>) =>
             /\ Len(ix.runs) = Len(ix_args.indm)
             /\ \A k \in 1 .. Len(ix.runs) : FirstAccepted(ix.runs[k]) = 0

(* the first method gave candidates of which none was accepted, and the    *)
(* second one gave the indexed cell                                        *)
C26_Witness ==
    /\ ix.pc = "done" /\ Len(ix.runs) = 2
    /\ Len(ix.runs[1].cells) = 2 /\ FirstAccepted(ix.runs[1]) = 0
    /\ ix_args.cellr = "CELLR_COMPARE" /\ ix_args.config_insane = 0
    /\ ix.indexed_cell = <<2, 2>>


(* ---- C28 ---------------------------------------------------------------- *)

(* C28: with random intensities, once every worker is done the redundancy  *)
(* of each reflection of the full list is the number of reflections of     *)
(* the crystals whose asymmetric indices are its indices, and each such    *)
(* reflection is in the list                                               *)
C28_RedundancyCountsObservations ==
    LET Obs(h) == { o \in Workers \X (1 .. MaxRefl) :
                      /\ o[2] <= Len(cp[o[1]].refls)
                      /\ Abs(cp[o[1]].refls[o[2]]) = h }
    IN (random_intensities = 1 /\ \A w \in Workers : cp[w].pc = "done") =>
          /\ \A i \in 1 .. Len(full) :
                full[i].redundancy = Cardinality(Obs(full[i].hkl))
          /\ \A h \in AsymHKL :
                Obs(h) # {} => \E i \in 1 .. Len(full) : full[i].hkl = h


(* ---- C29 ---------------------------------------------------------------- *)

(* C29: in refine_all get_image is only ever called with                   *)
(* qargs.n < n_total_patterns, under the pool lock; the image handed out   *)
(* is one of the n_total_patterns images; no image is handed to two tasks, *)
(* and once n_total_patterns tasks have started each image has been handed *)
(* to one; get_image never returns NULL                                    *)
C29_ImageIndexInRange ==
    tq.get_task = "get_image" =>
       /\ \A k \in 1 .. Len(gt_calls) :
             /\ gt_calls[k].queue_args.n < qargs.n_total_patterns
             /\ gt_calls[k].queue_args.n = k - 1
             /\ gt_calls[k].lock = gt_calls[k].by
       /\ qargs.n = Len(gt_calls)
       /\ \A w \in Workers :
             tw[w].pc \in {"check_null", "count_start", "get_unlock", "work"}
                => tw[w].task \in 1 .. qargs.n_total_patterns
       /\ \A t \in DOMAIN worked :
             /\ worked[t] <= 1
             /\ worked[t] = 1 => t <= qargs.n_total_patterns
       /\ \A w, v \in Workers :
             (w # v /\ tw[w].pc = "work" /\ tw[v].pc = "work")
                => tw[w].task # tw[v].task
       /\ tq.n_started = tq.max => qargs.n = qargs.n_total_patterns
       /\ tpc = "returned" /\ t_threads > 0 =>
             \A t \in 1 .. qargs.n_total_patterns : worked[t] = 1

(* two workers were started and each has refined one of the two images *)
C29_Witness ==
    /\ tq.get_task = "get_image" /\ tpc = "returned" /\ t_threads = 2
    /\ qargs.n_total_patterns = 2 /\ Len(gt_calls) = 2
    /\ gt_calls[1].by # gt_calls[2].by
    /\ worked[1] = 1 /\ worked[2] = 1


(* C30: in match_cell every write into cand[i] is at an index below        *)
(* MAX_CAND: ncand[i] never exceeds MAX_CAND, and no candidate is stored   *)
(* once the array holds MAX_CAND entries, whatever cell and template       *)
C30_CandidateWritesInBounds ==
    mc.pc # "idle" =>
       \A i \in 1 .. 3 : /\ mc.ncand[i] >= 0
                         /\ mc.ncand[i] <= MAX_CAND
                         /\ mc.top[i] < MAX_CAND
                         /\ mc.top[i] = mc.ncand[i] - 1

(* two axes of the cell vanish and the third has the template's length:    *)
(* the scan is over and one list holds 784 candidates, the last of them    *)
(* written at index 783                                                    *)
C30_Witness ==
    /\ mc.pc = "angles"
    /\ \E i \in 1 .. 3 : mc.ncand[i] = 784 /\ mc.top[i] = 783

=============================================================================
